---- MODULE Spec2Model ----
(***************************************************************************)
(* State-machine model of the funding-rate monitor (src/6.1.6).            *)
(*                                                                         *)
(* BinanceWebSocketClient (binance_client.py) runs on one asyncio event    *)
(* loop: the code between two awaits is one atomic step.  The model has    *)
(* one action per suspension point of _connection_loop / _message_loop,    *)
(* of start() and of stop(), plus the steps of the environment (the        *)
(* server, the clock, the executor thread that runs a synchronous          *)
(* handler).                                                               *)
(***************************************************************************)
EXTENDS Integers, Sequences, FiniteSets, TLC

\* ---------------------------------------------------------------- bounds
MaxTasks == 2       \* start() calls that create a connection-loop task
MaxConn == 2        \* successful connections (reconnect_count)
MaxFail == 3        \* consecutive failed connection attempts (reconnect_attempt)
MaxMsgs == 2        \* frames the feed sends

\* ------------------------------------------------------ program constants
None == 0                                        \* Python's None
BACKUP_HOSTS == <<"fstream", "fstream1", "fstream2">>
RECONNECT_INTERVALS == <<1, 2, 5, 10, 20, 30, 60>>

Callers == {"c1", "c2"}        \* coroutines calling start() / stop()
TaskIds == 1..MaxTasks
MsgIds == 1..MaxMsgs
HandlerKinds == {"sync", "async"}   \* asyncio.iscoroutinefunction(data_handler)

VARIABLES
    is_running,          \* self.is_running
    is_connected,        \* self.is_connected
    websocket,           \* self.websocket: None or the id of a socket
    connection_task,     \* self.connection_task: None or a task id
    message_count,       \* self.message_count
    reconnect_count,     \* self.reconnect_count
    current_host_index,  \* self.current_host_index (0-based)
    aged,                \* _should_reconnect(): the connection is older than
                         \* MAX_CONNECTION_HOURS (read only while connected,
                         \* kept FALSE while is_connected is false)
    lockQ,               \* self._control_lock: holder first, then FIFO waiters
    callers,             \* per caller: position in start()/stop(), socket being closed
    tasks,               \* per task id: position and locals of _connection_loop
    nTasks,              \* tasks created so far
    closed,              \* sockets a task still holds whose connection has ended
    received,            \* frames received so far: TRUE = decodable JSON
    delivered,           \* payloads handed to data_handler, in invocation order
    hstat,               \* per payload: its handler invocation: "none", "running",
                         \* "returned" / "raised" (the awaiting task has not yet
                         \* seen it), "done", "cancelled"
    handlerKind          \* the registered data_handler: plain or coroutine function

\* BusinessCore (business_core.py).  A Python dict is a sequence of
\* <<key, value>> pairs in insertion order.
VARIABLES
    now,                 \* time.time(), in clock ticks
    current_rates,       \* self.current_rates: symbol -> rate
    rate_history,        \* self.rate_history: symbol -> retained rates, oldest first
    volatility_data,     \* self.volatility_data: symbol -> cached score entry
    top5_symbols,        \* self.top5_symbols: the published ranking
    champion_records,    \* self.champion_records: symbol -> champion record
    total_symbols,       \* self.total_symbols
    data_update_count,   \* self.data_update_count
    last_update_time,    \* self.last_update_time
    symbol_last_seen,    \* self.symbol_last_seen: symbol -> time
    window_size,         \* self.window_size (line 52)
    argsort_ties,        \* how np.argsort (default kind, not stable) orders
                         \* equal scores in this build
    last_batch           \* history variable: how many items of the latest
                         \* update_data call were processed and how many
                         \* _process_single_item turned away

\* History variables of the threads that use the core.
VARIABLES
    last_round           \* "assigned" or "kept" when the step just taken was
                         \* a round of the ranking loop that did or did not
                         \* assign self.top5_symbols (line 307); else "none"

\* The threads that call into the core, and the lock they share.
VARIABLES
    data_lock,           \* the thread that owns self.data_lock, or "none"
    ingest,              \* the thread calling update_data: where it is, the
                         \* items still to process, processed_count, the
                         \* inactive symbols and the pops still to make
    ranking_pc,          \* the ranking thread: "idle", or "locked" inside
                         \* `with self.data_lock`
    reader_pc,           \* a thread calling a locked accessor, likewise
    age_pc               \* a thread calling get_last_update_age: "idle", or
                         \* "checked" between its two reads

lockVars == <<data_lock, ingest, ranking_pc, reader_pc, age_pc>>

\* The code that calls the accessors of the core.
VARIABLES
    caller               \* the last accessor call and the value it returned;
                         \* for get_symbol_analysis also the dict held under
                         \* 'champion_info' as it is now, and whether that
                         \* dict is still the one in self.champion_records

\* The feed of the end-to-end scenario.
VARIABLES
    feed                 \* the field pair of the observations fed so far
                         \* and their raw rates, oldest first

\* The ranking thread of the core and the thread that starts and stops it.
VARIABLES
    ranking_thread,      \* self.ranking_thread: None or the id of a thread
    stop_event,          \* self.stop_event is set
    loops,               \* per thread id: where its _ranking_loop is: "none"
                         \* (not created), "check" (the while test), "acquire"
                         \* (entering `with self.data_lock`), "locked" (inside
                         \* it), "wait" (in stop_event.wait), "done"
    controller           \* the thread that calls start() and stop(): where it
                         \* is, its last call, and whether it is inside a
                         \* `with data_lock` block of its own

loopVars == <<ranking_thread, stop_event, loops, controller>>

threadVars == <<last_round, lockVars, caller, feed, loopVars>>

coreVars == <<now, current_rates, rate_history, volatility_data, top5_symbols,
              champion_records, total_symbols, data_update_count,
              last_update_time, symbol_last_seen, window_size, argsort_ties,
              last_batch, threadVars>>

clientVars == <<is_running, is_connected, websocket, connection_task,
                message_count, reconnect_count, current_host_index, aged, lockQ,
                callers, tasks, nTasks, closed, received, delivered, hstat,
                handlerKind>>

vars == <<clientVars, coreVars>>

clientFields == <<is_running, is_connected, websocket, connection_task,
                  message_count, reconnect_count, current_host_index, aged>>

NoTask == [pc |-> "none", reconnect_attempt |-> 0, ws |-> None, cur |-> None,
           wait_time |-> 0, announced |-> 0, exitKind |-> "none", hostAtExit |-> 0]

TaskPcs == {"none", "created", "connecting", "recv", "handler_async",
            "handler_exec", "aexit", "aexit_cancel", "sleeping", "done"}
LivePcs == TaskPcs \ {"none", "done"}
StopPcs == {"stop_call", "stop_closing", "stop_waiting", "stop_cancelling"}

\* No accessor has been called.
NoCall == [call |-> "none", value |-> <<>>, object |-> <<>>, aliased |-> FALSE]

\* No call of update_data is in progress.
IdleIngest ==
    [pc |-> "idle", data |-> [kind |-> "other", items |-> <<>>], items |-> <<>>,
     processed_count |-> 0, inactive_symbols |-> <<>>, pops |-> <<>>]

\* Nothing was fed.
NoFeed == [form |-> "none", rates |-> <<>>]

MaxWindow == 3             \* the window of the bounded model, in points
MaxThreads == 2            \* ranking threads the model has room for

ThreadIds == 1..MaxThreads
LoopPcs == {"none", "check", "acquire", "locked", "wait", "done"}

\* No call of start() or stop() is in progress and none was made.
IdleController == [pc |-> "idle", last |-> "none", holds |-> FALSE]

\* BusinessCore.__init__ (lines 22-55) with config.MOVING_AVERAGE_WINDOW =
\* window, at the first tick of the clock.
BusinessCoreWith(window) ==
    /\ now = 1
    /\ window_size = window
    /\ feed = NoFeed
    /\ current_rates = <<>>
    /\ rate_history = <<>>
    /\ volatility_data = <<>>
    /\ top5_symbols = <<>>
    /\ champion_records = <<>>
    /\ total_symbols = 0
    /\ data_update_count = 0
    /\ last_update_time = None
    /\ symbol_last_seen = <<>>
    /\ last_batch = [processed |-> 0, rejected |-> 0]
    /\ last_round = "none"
    /\ caller = NoCall
    /\ data_lock = "none"
    /\ ingest = IdleIngest
    /\ ranking_pc = "idle"
    /\ reader_pc = "idle"
    /\ age_pc = "idle"
    /\ ranking_thread = None
    /\ stop_event = FALSE
    /\ loops = [t \in ThreadIds |-> "none"]
    /\ controller = IdleController

BusinessCoreInit == BusinessCoreWith(MaxWindow)

\* BinanceWebSocketClient.__init__ (lines 34-65).
ClientInit ==
    /\ is_running = FALSE
    /\ is_connected = FALSE
    /\ websocket = None
    /\ connection_task = None
    /\ message_count = 0
    /\ reconnect_count = 0
    /\ current_host_index = 0
    /\ aged = FALSE
    /\ lockQ = <<>>
    /\ callers = [c \in Callers |-> [pc |-> "idle", sock |-> None]]
    /\ tasks = [t \in TaskIds |-> NoTask]
    /\ nTasks = 0
    /\ closed = {}
    /\ received = <<>>
    /\ delivered = <<>>
    /\ hstat = [m \in MsgIds |-> "none"]
    /\ handlerKind \in HandlerKinds

\* The client and the core as main.py constructs them.  The connection
\* specification never sorts a ranking; CoreInit below draws argsort_ties.
Init ==
    /\ ClientInit
    /\ BusinessCoreInit
    /\ argsort_ties = "stable"

\* --------------------------------------------------------- pure helpers
get_reconnect_interval(attempt) ==
    IF attempt < Len(RECONNECT_INTERVALS)
    THEN RECONNECT_INTERVALS[attempt + 1]
    ELSE RECONNECT_INTERVALS[Len(RECONNECT_INTERVALS)]

\* The host switch without the wrap at the end of the list.
switch_without_wrap(i) == i + 1

switch_to_next_host(i) == (i + 1) % Len(BACKUP_HOSTS)

\* An outer loop that gives up once a backoff has been slept.
connection_loop_gives_up(tk) ==
    IF is_running /\ tk.pc # "sleeping"
    THEN [tk EXCEPT !.pc = "connecting", !.wait_time = 0, !.announced = 0]
    ELSE [NoTask EXCEPT !.pc = "done"]

\* The head of the outer loop (line 125): connect again, or leave the loop.
connection_loop(tk) ==
    IF is_running
    THEN [tk EXCEPT !.pc = "connecting", !.wait_time = 0, !.announced = 0,
                    !.exitKind = IF tk.pc = "sleeping" THEN "none" ELSE tk.exitKind,
                    !.hostAtExit = IF tk.pc = "sleeping" THEN 0 ELSE tk.hostAtExit]
    ELSE [NoTask EXCEPT !.pc = "done"]

\* Lines 182-183 after the inner loop, then the exit of the `async with`.
leave_message_loop(tk, kind) ==
    [is_connected |-> FALSE, websocket |-> None, aged |-> FALSE,
     task |-> [tk EXCEPT !.pc = "aexit", !.cur = None, !.exitKind = kind,
                         !.hostAtExit = current_host_index]]

\* An inner loop that never looks at the age of its connection.
message_loop_ignores_age(conn, sock, ag, tk) ==
    IF conn /\ is_running
    THEN IF sock = None THEN leave_message_loop(tk, "closed")
         ELSE [is_connected |-> conn, websocket |-> sock, aged |-> ag,
               task |-> [tk EXCEPT !.pc = "recv", !.cur = None]]
    ELSE leave_message_loop(tk, "stopped")

\* The head of the inner loop (lines 161-170) with the fields as they are now.
message_loop(conn, sock, ag, tk) ==
    IF conn /\ is_running
    THEN IF ag THEN leave_message_loop(tk, "aged")
         ELSE IF sock = None THEN leave_message_loop(tk, "closed")
         ELSE [is_connected |-> conn, websocket |-> sock, aged |-> ag,
               task |-> [tk EXCEPT !.pc = "recv", !.cur = None]]
    ELSE leave_message_loop(tk, "stopped")


\* A dispatch that does not await the executor future: the plain handler is
\* started and the inner loop goes straight on to its next receive.
call_handler_unawaited(tk, id) ==
    [task |-> [tk EXCEPT !.pc = IF handlerKind = "async" THEN "handler_async"
                                 ELSE "recv",
                         !.cur = id],
     delivered |-> Append(delivered, id),
     hstat |-> [hstat EXCEPT ![id] = "running"]]

\* _call_handler_safely (lines 199-210): the invocation starts at once; the
\* loop task awaits it (inline for a coroutine function, through
\* run_in_executor for a plain function).
call_handler_safely(tk, id) ==
    [task |-> [tk EXCEPT !.pc = IF handlerKind = "async" THEN "handler_async"
                                 ELSE "handler_exec",
                         !.cur = id],
     delivered |-> Append(delivered, id),
     hstat |-> [hstat EXCEPT ![id] = "running"]]

\* _process_message calling the handler before it knows the frame decodes.
process_message_undecoded(tk, id, ok) ==
    LET d == call_handler_safely(tk, id)
    IN  [message_count |-> message_count + 1,
         is_connected |-> is_connected, websocket |-> websocket,
         aged |-> aged, task |-> d.task, delivered |-> d.delivered, hstat |-> d.hstat]

\* _process_message without its own try: a JSONDecodeError reaches the
\* `except Exception` of the inner loop, which breaks.
process_message_uncaught(tk, id, ok) ==
    IF ok
    THEN LET d == call_handler_safely(tk, id)
         IN  [message_count |-> message_count + 1,
              is_connected |-> is_connected, websocket |-> websocket,
              aged |-> aged, task |-> d.task, delivered |-> d.delivered, hstat |-> d.hstat]
    ELSE LET m == leave_message_loop(tk, "closed")
         IN  [message_count |-> message_count + 1,
              is_connected |-> m.is_connected, websocket |-> m.websocket,
              aged |-> m.aged, task |-> m.task, delivered |-> delivered, hstat |-> hstat]

\* _process_message (lines 185-197) for frame number id; ok = json.loads succeeds.
\* A frame that does not decode is logged and the inner loop goes on.
process_message(tk, id, ok) ==
    IF ok
    THEN LET d == call_handler_safely(tk, id)
         IN  [message_count |-> message_count + 1,
              is_connected |-> is_connected, websocket |-> websocket,
              aged |-> aged, task |-> d.task, delivered |-> d.delivered, hstat |-> d.hstat]
    ELSE LET m == message_loop(is_connected, websocket, aged, tk)
         IN  [message_count |-> message_count + 1,
              is_connected |-> m.is_connected, websocket |-> m.websocket,
              aged |-> m.aged, task |-> m.task, delivered |-> delivered, hstat |-> hstat]

\* What the handler invocation did, once the await of line 204 / 208 returns:
\* a raise is caught at line 209 and logged; either way the inner loop goes on.
handler_returned(tk, outcome) ==
    message_loop(is_connected, websocket, aged, tk)

\* CancelledError thrown into the task at its suspension point.  It is a
\* BaseException: no `except Exception` of the loop catches it, lines 182-183
\* are skipped, and only the `async with` of line 130 still closes its socket.
cancel_task(tk) ==
    IF tk.pc \in {"recv", "handler_async", "handler_exec"}
    THEN [tk EXCEPT !.pc = "aexit_cancel"]
    ELSE IF tk.pc \in {"created", "connecting", "sleeping", "aexit"}
    THEN [NoTask EXCEPT !.pc = "done"]
    ELSE tk

\* ------------------------------------------------- the connection-loop task
\* First run of a task created by start(): the while test of line 125.
TaskBegin(t) ==
    /\ tasks[t].pc = "created"
    /\ tasks' = [tasks EXCEPT ![t] = connection_loop(tasks[t])]
    /\ UNCHANGED <<clientFields, lockQ, callers, nTasks, closed, received,
                   delivered, hstat, handlerKind>>
    /\ UNCHANGED coreVars

\* A connection that leaves the count of failed attempts as it is.
connected_keeps_attempts(tk, sock) ==
    [tk EXCEPT !.ws = sock, !.exitKind = "none", !.hostAtExit = 0]

\* Lines 138-143: the loop task once websockets.connect has given it sock.
connected(tk, sock) ==
    [tk EXCEPT !.ws = sock, !.reconnect_attempt = 0,
               !.exitKind = "none", !.hostAtExit = 0]

\* websockets.connect succeeds (lines 138-147): the fields are set and the
\* inner loop runs to its first receive.
ConnectOk(t) ==
    /\ tasks[t].pc = "connecting"
    /\ reconnect_count < MaxConn
    /\ LET sock == reconnect_count + 1
           tk == connected(tasks[t], sock)
           m == message_loop(TRUE, sock, FALSE, tk)
       IN  /\ is_connected' = m.is_connected
           /\ websocket' = m.websocket
           /\ aged' = m.aged
           /\ tasks' = [tasks EXCEPT ![t] = m.task]
    /\ reconnect_count' = reconnect_count + 1
    /\ UNCHANGED <<is_running, connection_task, message_count,
                   current_host_index, lockQ, callers, nTasks, closed,
                   received, delivered, hstat, handlerKind>>
    /\ UNCHANGED coreVars

\* websockets.connect raises (lines 149-155): _handle_connection_error with
\* the old attempt number, host switch, attempt + 1, then the sleep.
ConnectFail(t) ==
    /\ tasks[t].pc = "connecting"
    /\ tasks[t].reconnect_attempt < MaxFail
    /\ is_connected' = FALSE
    /\ websocket' = None
    /\ aged' = FALSE
    /\ current_host_index' = switch_to_next_host(current_host_index)
    /\ LET tk == tasks[t]
       IN  tasks' = [tasks EXCEPT ![t] =
             [tk EXCEPT !.pc = "sleeping",
                        !.announced = IF is_running
                                      THEN get_reconnect_interval(tk.reconnect_attempt)
                                      ELSE 0,
                        !.reconnect_attempt = tk.reconnect_attempt + 1,
                        !.wait_time = get_reconnect_interval(tk.reconnect_attempt + 1),
                        !.exitKind = "failed",
                        !.hostAtExit = current_host_index]]
    /\ UNCHANGED <<is_running, connection_task, message_count, reconnect_count,
                   lockQ, callers, nTasks, closed, received, delivered,
                   hstat, handlerKind>>
    /\ UNCHANGED coreVars

\* asyncio.sleep(wait_time) of line 155 returns.
SleepDone(t) ==
    /\ tasks[t].pc = "sleeping"
    /\ tasks' = [tasks EXCEPT ![t] = connection_loop(tasks[t])]
    /\ UNCHANGED <<clientFields, lockQ, callers, nTasks, closed, received,
                   delivered, hstat, handlerKind>>
    /\ UNCHANGED coreVars

\* wait_for(recv(), 1.0) times out (line 172): back to the head of the inner loop.
RecvTimeout(t) ==
    /\ tasks[t].pc = "recv"
    /\ LET m == message_loop(is_connected, websocket, aged, tasks[t])
       IN  /\ is_connected' = m.is_connected
           /\ websocket' = m.websocket
           /\ aged' = m.aged
           /\ tasks' = [tasks EXCEPT ![t] = m.task]
    /\ UNCHANGED <<is_running, connection_task, message_count, reconnect_count,
                   current_host_index, lockQ, callers, nTasks, closed,
                   received, delivered, hstat, handlerKind>>
    /\ UNCHANGED coreVars

\* recv() returns a frame (line 170-171).
RecvMessage(t, ok) ==
    /\ tasks[t].pc = "recv"
    /\ tasks[t].ws \notin closed
    /\ Len(received) < MaxMsgs
    /\ LET r == process_message(tasks[t], Len(received) + 1, ok)
       IN  /\ message_count' = r.message_count
           /\ is_connected' = r.is_connected
           /\ websocket' = r.websocket
           /\ aged' = r.aged
           /\ tasks' = [tasks EXCEPT ![t] = r.task]
           /\ delivered' = r.delivered
           /\ hstat' = r.hstat
    /\ received' = Append(received, ok)
    /\ UNCHANGED <<is_running, connection_task, reconnect_count,
                   current_host_index, lockQ, callers, nTasks, closed,
                   handlerKind>>
    /\ UNCHANGED coreVars

\* recv() raises ConnectionClosed on an ended connection (lines 175-177), or
\* any other exception (lines 178-180): the inner loop is left with a break.
RecvClosed(t) ==
    /\ tasks[t].pc = "recv"
    /\ tasks[t].ws \in closed
    /\ LET m == leave_message_loop(tasks[t], "closed")
       IN  /\ is_connected' = m.is_connected
           /\ websocket' = m.websocket
           /\ aged' = m.aged
           /\ tasks' = [tasks EXCEPT ![t] = m.task]
    /\ UNCHANGED <<is_running, connection_task, message_count, reconnect_count,
                   current_host_index, lockQ, callers, nTasks, closed,
                   received, delivered, hstat, handlerKind>>
    /\ UNCHANGED coreVars

\* The awaited coroutine handler returns or raises (line 204).
HandlerAsyncDone(t, outcome) ==
    /\ tasks[t].pc = "handler_async"
    /\ hstat' = [hstat EXCEPT ![tasks[t].cur] = "done"]
    /\ LET m == handler_returned(tasks[t], outcome)
       IN  /\ is_connected' = m.is_connected
           /\ websocket' = m.websocket
           /\ aged' = m.aged
           /\ tasks' = [tasks EXCEPT ![t] = m.task]
    /\ UNCHANGED <<is_running, connection_task, message_count, reconnect_count,
                   current_host_index, lockQ, callers, nTasks, closed,
                   received, delivered, handlerKind>>
    /\ UNCHANGED coreVars

\* The executor future of line 208 is done: the loop task resumes.
HandlerExecResume(t) ==
    /\ tasks[t].pc = "handler_exec"
    /\ hstat[tasks[t].cur] \in {"returned", "raised"}
    /\ hstat' = [hstat EXCEPT ![tasks[t].cur] = "done"]
    /\ LET m == handler_returned(tasks[t], hstat[tasks[t].cur])
       IN  /\ is_connected' = m.is_connected
           /\ websocket' = m.websocket
           /\ aged' = m.aged
           /\ tasks' = [tasks EXCEPT ![t] = m.task]
    /\ UNCHANGED <<is_running, connection_task, message_count, reconnect_count,
                   current_host_index, lockQ, callers, nTasks, closed,
                   received, delivered, handlerKind>>
    /\ UNCHANGED coreVars

\* The `async with` of line 130 has closed its socket on the way out of the
\* block; the outer loop goes on with its while test.
AexitDone(t) ==
    /\ tasks[t].pc = "aexit"
    /\ closed' = closed \ {tasks[t].ws}
    /\ tasks' = [tasks EXCEPT ![t] = connection_loop([tasks[t] EXCEPT !.ws = None])]
    /\ UNCHANGED <<clientFields, lockQ, callers, nTasks, received, delivered,
                   hstat, handlerKind>>
    /\ UNCHANGED coreVars

\* The same exit while CancelledError propagates: the task then ends cancelled.
\* (closed keeps only sockets a task still holds.)
AexitCancelDone(t) ==
    /\ tasks[t].pc = "aexit_cancel"
    /\ closed' = closed \ {tasks[t].ws}
    /\ tasks' = [tasks EXCEPT ![t] = [NoTask EXCEPT !.pc = "done"]]
    /\ UNCHANGED <<clientFields, lockQ, callers, nTasks, received, delivered,
                   hstat, handlerKind>>
    /\ UNCHANGED coreVars

\* ------------------------------------------------------------ environment
\* Some task is suspended on the executor future of invocation id.
Awaited(id) == \E t \in TaskIds : tasks[t].pc = "handler_exec" /\ tasks[t].cur = id

\* The server (or the network) ends the connection of a live socket.
ServerClose(t) ==
    /\ tasks[t].pc \in {"recv", "handler_async", "handler_exec"}
    /\ tasks[t].ws \notin closed
    /\ closed' = closed \cup {tasks[t].ws}
    /\ UNCHANGED <<clientFields, lockQ, callers, tasks, nTasks, received,
                   delivered, hstat, handlerKind>>
    /\ UNCHANGED coreVars

\* The connection outlives MAX_CONNECTION_HOURS (_should_reconnect, 212-216).
AgeLimitPasses ==
    /\ is_connected
    /\ ~aged
    /\ aged' = TRUE
    /\ UNCHANGED <<is_running, is_connected, websocket, connection_task,
                   message_count, reconnect_count, current_host_index, lockQ,
                   callers, tasks, nTasks, closed, received, delivered, hstat,
                   handlerKind>>
    /\ UNCHANGED coreVars

\* The executor thread running a plain handler returns or raises.  The thread
\* is not stopped by the cancellation of the task that awaits it.
ExecutorThreadDone(id, outcome) ==
    /\ handlerKind = "sync"
    /\ hstat[id] = "running"
    /\ hstat' = [hstat EXCEPT ![id] = IF Awaited(id) THEN outcome ELSE "done"]
    /\ UNCHANGED <<clientFields, lockQ, callers, tasks, nTasks, closed,
                   received, delivered, handlerKind>>
    /\ UNCHANGED coreVars

\* ------------------------------------------------------- start() and stop()
LockHeld(c) == lockQ # <<>> /\ Head(lockQ) = c
StartsPending == Cardinality({c \in Callers : callers[c].pc = "start_call"})
TaskDone(t) == tasks[t].pc = "done"
HeldSockets(tks) == {tks[t].ws : t \in TaskIds} \ {None}

\* start() without the is_running test of line 70.
StartLockedUnchecked(c, q) ==
    /\ is_running' = TRUE
    /\ connection_task' = nTasks + 1
    /\ tasks' = [tasks EXCEPT ![nTasks + 1] = [NoTask EXCEPT !.pc = "created"]]
    /\ nTasks' = nTasks + 1
    /\ callers' = [callers EXCEPT ![c].pc = "idle"]
    /\ lockQ' = Tail(q)
    /\ UNCHANGED <<is_connected, websocket, message_count, reconnect_count,
                   current_host_index, aged, closed, received, delivered,
                   hstat, handlerKind>>

\* The body of start() with the lock held (lines 70-76); q is the lock queue
\* with the caller first.
StartLocked(c, q) ==
    /\ IF is_running
       THEN UNCHANGED <<is_running, connection_task, tasks, nTasks>>
       ELSE /\ is_running' = TRUE
            /\ connection_task' = nTasks + 1
            /\ tasks' = [tasks EXCEPT ![nTasks + 1] = [NoTask EXCEPT !.pc = "created"]]
            /\ nTasks' = nTasks + 1
    /\ callers' = [callers EXCEPT ![c].pc = "idle"]
    /\ lockQ' = Tail(q)
    /\ UNCHANGED <<is_connected, websocket, message_count, reconnect_count,
                   current_host_index, aged, closed, received, delivered,
                   hstat, handlerKind>>

\* stop() with the lock held, lines 81-93: return if not running; else clear
\* is_running and start closing the live socket, or go on to wait for the task.
StopLocked(c, q) ==
    /\ IF ~is_running
       THEN /\ callers' = [callers EXCEPT ![c].pc = "idle"]
            /\ lockQ' = Tail(q)
            /\ UNCHANGED is_running
       ELSE /\ is_running' = FALSE
            /\ callers' = [callers EXCEPT ![c] =
                  IF websocket # None
                  THEN [pc |-> "stop_closing", sock |-> websocket]
                  ELSE [pc |-> "stop_waiting", sock |-> None]]
            /\ lockQ' = q
    /\ UNCHANGED <<is_connected, websocket, connection_task, message_count,
                   reconnect_count, current_host_index, aged, tasks, nTasks,
                   closed, received, delivered, hstat, handlerKind>>

\* A caller queues for _control_lock, which another caller holds (lines 69, 80).
WaitForLock(c, op) ==
    /\ callers' = [callers EXCEPT ![c].pc = op]
    /\ lockQ' = Append(lockQ, c)
    /\ UNCHANGED <<clientFields, tasks, nTasks, closed, received, delivered,
                   hstat, handlerKind>>

\* A coroutine calls start(): with the lock free the body runs at once
\* (acquiring a free asyncio.Lock does not suspend).
CallStart(c) ==
    /\ callers[c].pc = "idle"
    /\ nTasks + StartsPending < MaxTasks
    /\ IF lockQ = <<>> THEN StartLocked(c, <<c>>) ELSE WaitForLock(c, "start_call")
    /\ UNCHANGED coreVars

\* A queued start() gets the lock.
StartBody(c) ==
    /\ callers[c].pc = "start_call"
    /\ LockHeld(c)
    /\ StartLocked(c, lockQ)
    /\ UNCHANGED coreVars

\* A coroutine calls stop().
CallStop(c) ==
    /\ callers[c].pc = "idle"
    /\ IF lockQ = <<>> THEN StopLocked(c, <<c>>) ELSE WaitForLock(c, "stop_call")
    /\ UNCHANGED coreVars

\* A queued stop() gets the lock.
StopBody(c) ==
    /\ callers[c].pc = "stop_call"
    /\ LockHeld(c)
    /\ StopLocked(c, lockQ)
    /\ UNCHANGED coreVars

\* websocket.close() returns or raises (lines 93-97): either way the
\* reference is dropped; a close that raised may have left the connection up.
StopCloseDone(c, raised, ended) ==
    /\ callers[c].pc = "stop_closing"
    /\ ~raised => ended
    /\ closed' = IF ended THEN closed \cup ({callers[c].sock} \cap HeldSockets(tasks))
                 ELSE closed
    /\ websocket' = None
    /\ callers' = [callers EXCEPT ![c] = [pc |-> "stop_waiting", sock |-> None]]
    /\ UNCHANGED <<is_running, is_connected, connection_task, message_count,
                   reconnect_count, current_host_index, aged, lockQ, tasks,
                   nTasks, received, delivered, hstat, handlerKind>>
    /\ UNCHANGED coreVars

\* stop() without line 118: is_connected is left as the loop left it.
StopFinishKeepsConnected(c) ==
    /\ connection_task' = None
    /\ callers' = [callers EXCEPT ![c].pc = "idle"]
    /\ lockQ' = Tail(lockQ)
    /\ UNCHANGED <<is_running, is_connected, websocket, message_count,
                   reconnect_count, current_host_index, aged, tasks, nTasks,
                   closed, received, delivered, hstat, handlerKind>>

\* The end of stop() (lines 115-119): the task reference and is_connected
\* are cleared and the lock is released.
StopFinish(c) ==
    /\ connection_task' = None
    /\ is_connected' = FALSE
    /\ aged' = FALSE
    /\ callers' = [callers EXCEPT ![c].pc = "idle"]
    /\ lockQ' = Tail(lockQ)
    /\ UNCHANGED <<is_running, websocket, message_count, reconnect_count,
                   current_host_index, tasks, nTasks, closed, received,
                   delivered, hstat, handlerKind>>

\* wait_for(connection_task, 3.0) returns because the task has ended by
\* itself (lines 100-104, or 113-114), or there is no task to wait for.
StopWaitDone(c) ==
    /\ callers[c].pc = "stop_waiting"
    /\ connection_task # None => TaskDone(connection_task)
    /\ StopFinish(c)
    /\ UNCHANGED coreVars

\* stop() awaiting the task with no timeout: the grace period never elapses.
WaitWithoutTimeout(c) ==
    /\ callers[c].pc = "stop_waiting"
    /\ FALSE
    /\ UNCHANGED vars

\* The 3 s of wait_for elapse first (lines 105-108): the task is cancelled.
GraceTimeout(c) ==
    /\ callers[c].pc = "stop_waiting"
    /\ connection_task # None
    /\ ~TaskDone(connection_task)
    /\ LET tk == tasks[connection_task]
       IN  /\ tasks' = [tasks EXCEPT ![connection_task] = cancel_task(tk)]
           /\ hstat' = IF tk.pc = "handler_async"
                       THEN [hstat EXCEPT ![tk.cur] = "cancelled"]
                       ELSE hstat
    /\ closed' = closed \cap HeldSockets(tasks')
    /\ callers' = [callers EXCEPT ![c].pc = "stop_cancelling"]
    /\ UNCHANGED <<clientFields, lockQ, nTasks, received, delivered, handlerKind>>
    /\ UNCHANGED coreVars

\* `await self.connection_task` of line 110 raises CancelledError: the
\* cancelled task has ended.
StopCancelDone(c) ==
    /\ callers[c].pc = "stop_cancelling"
    /\ TaskDone(connection_task)
    /\ StopFinish(c)
    /\ UNCHANGED coreVars

\* ------------------------------------------------------------ specification
TaskStep(t) ==
    \/ TaskBegin(t)
    \/ ConnectOk(t)
    \/ ConnectFail(t)
    \/ SleepDone(t)
    \/ RecvTimeout(t)
    \/ \E ok \in BOOLEAN : RecvMessage(t, ok)
    \/ RecvClosed(t)
    \/ \E outcome \in {"returned", "raised"} : HandlerAsyncDone(t, outcome)
    \/ HandlerExecResume(t)
    \/ AexitDone(t)
    \/ AexitCancelDone(t)

StopStep(c) ==
    \/ StopBody(c)
    \/ \E raised, ended \in BOOLEAN : StopCloseDone(c, raised, ended)
    \/ StopWaitDone(c)
    \/ GraceTimeout(c)
    \/ StopCancelDone(c)

EnvStep ==
    \/ \E t \in TaskIds : ServerClose(t)
    \/ AgeLimitPasses
    \/ \E id \in MsgIds, outcome \in {"returned", "raised"} : ExecutorThreadDone(id, outcome)

Next ==
    \/ \E t \in TaskIds : TaskStep(t)
    \/ \E c \in Callers : CallStart(c) \/ StartBody(c) \/ CallStop(c) \/ StopStep(c)
    \/ EnvStep

Spec == Init /\ [][Next]_vars

TypeOK ==
    /\ is_running \in BOOLEAN
    /\ is_connected \in BOOLEAN
    /\ websocket \in {None} \cup (1..MaxConn)
    /\ connection_task \in {None} \cup TaskIds
    /\ message_count \in 0..MaxMsgs
    /\ reconnect_count \in 0..MaxConn
    /\ \A t \in TaskIds : tasks[t].pc \in TaskPcs
    /\ \A c \in Callers : callers[c].pc \in StopPcs \cup {"idle", "start_call"}
    /\ Len(lockQ) <= Cardinality(Callers)

\* ------------------------------------------------------------------ C1
FullyStopped ==
    /\ ~is_running
    /\ ~is_connected
    /\ websocket = None
    /\ connection_task = None
    /\ \A t \in TaskIds : tasks[t].pc \notin LivePcs

InStop(c) == callers[c].pc \in StopPcs

\* A stop() that suspended (queued for the lock, closing, waiting) returns.
StopReturns(c) == InStop(c) /\ callers'[c].pc = "idle"

\* C1: whenever stop() returns the client is fully stopped: is_running and
\* is_connected are false, websocket and connection_task are None and no
\* connection-loop task is alive.  A stop() that finds the lock free and
\* is_running false returns at once without a step, so for it the property
\* is one of the state it is called in.
C1_StopLeavesClientStopped ==
    /\ []((lockQ = <<>> /\ ~is_running) => FullyStopped)
    /\ [][\A c \in Callers : StopReturns(c) => FullyStopped']_vars

\* stop() has returned after it had to cancel the loop in the middle of a
\* coroutine handler, and again nothing is left over.
C1_Witness ==
    /\ FullyStopped
    /\ lockQ = <<>>
    /\ \E id \in MsgIds : hstat[id] = "cancelled"

\* The fairness the event loop and the libraries give: a start() or stop()
\* that holds the lock runs its next step (the lock is FIFO, close() is
\* bounded by close_timeout, the 3 s timer of wait_for fires), and a
\* cancelled task finishes unwinding.  Nothing is assumed about the handler,
\* the server or the network.
Fairness ==
    /\ \A c \in Callers : WF_vars(StartBody(c))
    /\ \A c \in Callers : WF_vars(StopStep(c))
    /\ \A t \in TaskIds : WF_vars(AexitCancelDone(t))

\* ------------------------------------------------------------------ C2
\* Liveness is verified on the same actions with tighter limits on what the
\* environment does (frames, connections, failed attempts).
LiveMaxMsgs == 1
LiveMaxConn == 1
LiveMaxFail == 1

LiveBound ==
    /\ Len(received) <= LiveMaxMsgs
    /\ reconnect_count <= LiveMaxConn
    /\ \A t \in TaskIds : tasks[t].reconnect_attempt <= LiveMaxFail

LiveNext ==
    \/ \E t \in TaskIds : TaskStep(t) /\ LiveBound'
    \/ \E c \in Callers : (CallStart(c) \/ StartBody(c)) /\ LiveBound'
    \/ \E c \in Callers : (CallStop(c) \/ StopStep(c)) /\ LiveBound'
    \/ EnvStep /\ LiveBound'

LiveSpec == Init /\ [][LiveNext]_vars /\ Fairness

\* C2: stop() always completes: from every state of the connection loop a
\* stop() that has been called eventually returns.
C2_StopTerminates == \A c \in Callers : InStop(c) ~> callers[c].pc = "idle"

\* stop() found the loop still running when the grace period elapsed (here
\* in a backoff sleep, or on a socket whose close() raised) and has cancelled it.
C2_Witness ==
    \E c \in Callers :
        /\ callers[c].pc = "stop_cancelling"
        /\ tasks[connection_task].pc = "aexit_cancel"
        /\ tasks[connection_task].ws \notin closed

\* ------------------------------------------------------------------ C3
HandlerExecuting(id) == hstat[id] = "running"

\* C3: after stop() returns nothing the connection loop started still runs:
\* no loop task is alive and no handler invocation is executing.
C3_NothingRunsAfterStop ==
    [][\A c \in Callers : StopReturns(c) =>
          /\ \A t \in TaskIds : tasks'[t].pc \notin LivePcs
          /\ \A id \in MsgIds : ~HandlerExecuting(id)']_vars

\* ------------------------------------------------------------------ C4
LiveTasks == {t \in TaskIds : tasks[t].pc \in LivePcs}

\* A step of start(): called with the lock free, or resumed from the queue.
StartStep(c) ==
    \/ callers[c].pc = "idle" /\ lockQ = <<>> /\ StartLocked(c, <<c>>)
    \/ StartBody(c)

\* C4: start() is idempotent: at most one connection-loop task is alive at
\* any time; start() while running changes nothing; otherwise it creates
\* exactly one task, which connection_task then names, and every task
\* created earlier has ended.
C4_StartIdempotent ==
    /\ [](Cardinality(LiveTasks) <= 1)
    /\ [][\A c \in Callers : (StartStep(c) /\ is_running) =>
             UNCHANGED <<clientFields, tasks, nTasks>>]_vars
    /\ [][nTasks' # nTasks =>
             /\ ~is_running /\ is_running'
             /\ nTasks' = nTasks + 1
             /\ LiveTasks = {}
             /\ LiveTasks' = {nTasks'}
             /\ connection_task' = nTasks']_vars

\* A second loop runs after a completed stop() of the first, while the other
\* caller's start() is still queued behind the lock.
C4_Witness ==
    /\ nTasks = 2
    /\ tasks[1].pc = "done"
    /\ tasks[2].pc \in LivePcs
    /\ is_running

\* ------------------------------------------------------------------ C5
Indices(q) == [i \in 1..Len(q) |-> i]
IsDecodable(i) == received[i]
DecodableFrames == SelectSeq(Indices(received), IsDecodable)

\* C5: the handler is invoked exactly once, in order, for every received
\* frame that decodes, and for no other: the log of invocations is the
\* sequence of the decodable frames.
C5_DeliveredExactlyOnce ==
    /\ delivered = DecodableFrames
    /\ \A i \in 1..Len(received) : ~received[i] => hstat[i] = "none"

\* A frame that does not decode, then a reconnect, then a frame that is
\* being handled on the second socket.
C5_Witness ==
    /\ received = <<FALSE, TRUE>>
    /\ delivered = <<2>>
    /\ \E t \in TaskIds : tasks[t].ws = 2 /\ tasks[t].cur = 2

\* ------------------------------------------------------------------ C6
BadFrameStep(t) == RecvMessage(t, FALSE)
HandlerRaisedStep(t) ==
    \/ HandlerAsyncDone(t, "raised")
    \/ /\ tasks[t].pc = "handler_exec"
       /\ hstat[tasks[t].cur] = "raised"
       /\ HandlerExecResume(t)

\* C6: a frame that does not decode, or a handler that raises, does not end
\* the connection: unless a stop request or the age limit ends it, the
\* client stays connected on the same socket and waits for the next frame.
C6_BadFrameKeepsConnection ==
    [][\A t \in TaskIds :
          ((BadFrameStep(t) \/ HandlerRaisedStep(t))
              /\ is_running /\ is_connected /\ ~aged) =>
          /\ is_connected'
          /\ websocket' = websocket /\ websocket' = tasks[t].ws
          /\ tasks'[t].pc = "recv"
          /\ tasks'[t].ws = tasks[t].ws]_vars

\* After an undecodable first frame the second frame was received on the same
\* socket and handed to the handler, which raised; the client is connected.
C6_Witness ==
    /\ received = <<FALSE, TRUE>>
    /\ delivered = <<2>>
    /\ reconnect_count = 1
    /\ is_connected /\ websocket = 1
    /\ \E t \in TaskIds : tasks[t].pc = "handler_exec" /\ hstat[tasks[t].cur] = "raised"

\* ------------------------------------------------------------------ C7
\* The plain handler invocation dispatched by task t is executing.
SyncHandlerOf(t) ==
    /\ handlerKind = "sync"
    /\ tasks[t].pc \in LivePcs
    /\ tasks[t].cur # None
    /\ HandlerExecuting(tasks[t].cur)

\* C7 as claimed: while a plain handler invocation executes, the receive
\* loop is at its bounded receive, checking the stop request and the age.
C7_ReceiveLoopKeepsRunning ==
    \A t \in TaskIds : SyncHandlerOf(t) => tasks[t].pc = "recv"

\* C7 as amended: the plain handler runs in an executor thread, so the event
\* loop is free, but the receive loop awaits it: while the invocation
\* executes the loop task is suspended on it (or is being cancelled) and
\* does no receive and no check.
C7_ReceiveLoopAwaitsHandler ==
    \A t \in TaskIds : SyncHandlerOf(t) => tasks[t].pc \in {"handler_exec", "aexit_cancel"}

\* The age limit has passed while the plain handler executes; the loop, still
\* running, is suspended on the handler.
C7_Witness ==
    \E t \in TaskIds :
        /\ SyncHandlerOf(t)
        /\ tasks[t].pc = "handler_exec"
        /\ is_running /\ aged

\* ------------------------------------------------------------------ C8
FailedAttempt(t) == tasks'[t].reconnect_attempt = tasks[t].reconnect_attempt + 1

\* C8: host rotation is cyclic: every failed connection attempt moves the
\* cursor from A to B, from B to C, from C to A, and the cursor is always an
\* index of the host list.
C8_HostRotation ==
    /\ [](current_host_index \in 0..(Len(BACKUP_HOSTS) - 1))
    /\ [][\A t \in TaskIds : FailedAttempt(t) =>
             /\ current_host_index = 0 => current_host_index' = 1
             /\ current_host_index = 1 => current_host_index' = 2
             /\ current_host_index = 2 => current_host_index' = 0]_vars

\* Three consecutive failures from host A: the cursor is back at A.
C8_Witness ==
    \E t \in TaskIds :
        /\ tasks[t].pc = "sleeping"
        /\ tasks[t].reconnect_attempt = 3
        /\ reconnect_count = 0
        /\ current_host_index = 0

\* ------------------------------------------------------------------ C9
\* C9: a close (or other receive error) of an established connection is
\* handled as a connection failure: the host cursor advances and a backoff is
\* slept before the next connection attempt.  exitKind tells how the last
\* connection ended and is reset by a backoff sleep, so the property is that
\* no attempt is made with a close not yet followed by a backoff.
C9_CloseIsFailure ==
    \A t \in TaskIds : ~(tasks[t].pc = "connecting" /\ tasks[t].exitKind = "closed")

\* ----------------------------------------------------------------- C10
\* C10: the wait slept after a failure is the one announced for it, and the
\* first failure after a successful connection (or after the start) waits
\* the first entry of the schedule.
C10_SleptIsAnnounced ==
    \A t \in TaskIds :
        tasks[t].pc = "sleeping" =>
            /\ tasks[t].announced # 0 => tasks[t].wait_time = tasks[t].announced
            /\ tasks[t].reconnect_attempt = 1 => tasks[t].wait_time = RECONNECT_INTERVALS[1]

\* ----------------------------------------------------------------- C11
\* The scheduling of the loop task itself: a created task starts, a backoff
\* sleep ends, the exit of the `async with` completes (bounded by
\* close_timeout), and a receive on a closed connection raises.
LoopFairness ==
    \A t \in TaskIds :
        /\ WF_vars(TaskBegin(t))
        /\ WF_vars(SleepDone(t))
        /\ WF_vars(AexitDone(t))
        /\ WF_vars(RecvClosed(t))

LoopSpec == Init /\ [][LiveNext]_vars /\ Fairness /\ LoopFairness

\* The loop task t ends in this step.
LoopExits(t) == tasks[t].pc \in LivePcs /\ tasks'[t].pc \notin LivePcs

\* The connection of task t has ended (failure, close, age limit) and the
\* task has not yet started its next attempt.
BetweenConnections(t) == tasks[t].pc \in {"aexit", "sleeping"}

\* C11: the connection loop ends only on a stop request: no step ends the
\* loop task while is_running is true, and whenever a connection has failed
\* or ended, a new connection attempt is eventually made unless a stop is
\* requested.
C11_LoopEndsOnlyOnStop ==
    /\ [][\A t \in TaskIds : LoopExits(t) => ~is_running]_vars
    /\ \A t \in TaskIds :
          (is_running /\ BetweenConnections(t)) ~>
              (tasks[t].pc = "connecting" \/ ~is_running)

\* After a connection that the server closed and a failed attempt that was
\* slept off, the loop, still running, is at its next connection attempt.
C11_Witness ==
    \E t \in TaskIds :
        /\ is_running
        /\ tasks[t].pc = "connecting"
        /\ reconnect_count = 1
        /\ tasks[t].reconnect_attempt = 1
        /\ tasks[t].exitKind = "none"

\* ============================================================ BusinessCore
\* Configuration and literals of business_core.py, scaled to the model:
\* time is counted in ticks.
TOP_RANKING_COUNT == 1     \* config.TOP_RANKING_COUNT (line 303)
champion_ttl == 1          \* self.champion_ttl (line 53), in ticks
inactive_threshold == 1    \* inactive_threshold (line 344), in ticks
CleanupEvery == 2          \* batches between two cleanups (line 100)
MaxTime == 3               \* the clock runs from 1 to MaxTime
MaxUpdates == 4            \* batches counted by data_update_count

SYMBOL_SUFFIX_FILTER == <<"U", "S", "D", "T">>
SYMBOL_EXCLUDE_KEYWORDS == {<<"U", "P">>, <<"D", "O", "W", "N">>}
RATE_LIMIT == 1000         \* -1000 < rate < 1000 (line 174)
PERCENT == 100             \* float(item['r']) * 100 (line 155)

\* --- what the feed can send
AUSDT == <<"A", "U", "S", "D", "T">>
BUSDT == <<"B", "U", "S", "D", "T">>
AUPUSDT == <<"A", "U", "P", "U", "S", "D", "T">>
AUSD == <<"A", "U", "S", "D">>

\* A JSON value in the place of a symbol: a string, or something else.
Str(chars) == [isstr |-> TRUE, chars |-> chars]
NotStr == [isstr |-> FALSE, chars |-> <<>>]
\* A JSON value in the place of a rate: a number (or numeric string), the
\* string "nan", or a text float() rejects.
Num(v) == [kind |-> "number", val |-> v]
NaN == [kind |-> "nan", val |-> 0]
Text == [kind |-> "text", val |-> 0]

RawRates == {0, 1, 2}
ItemsOf(sym, raw) == {[s |-> Str(sym), r |-> Num(v)] : v \in raw}
ValidItems == ItemsOf(AUSDT, RawRates) \cup ItemsOf(BUSDT, {0, 1})
OtherFormats ==
    {[symbol |-> Str(BUSDT), fundingRate |-> Num(1)],
     [symbol |-> Str(BUSDT), funding_rate |-> Num(100)]}
InvalidItems ==
    {[s |-> Str(AUPUSDT), r |-> Num(1)],
     [s |-> Str(AUSD), r |-> Num(1)],
     [s |-> Str(AUSDT), r |-> Num(10)],
     [s |-> Str(AUSDT), r |-> NaN],
     [s |-> Str(AUSDT), r |-> Text],
     [s |-> NotStr, r |-> Num(1)],
     [s |-> Str(AUSDT)],
     [scalar |-> 0]}
Items == ValidItems \cup OtherFormats \cup InvalidItems

\* The argument of update_data: a dict, a list of items (here one item for
\* each symbol, or an item the validation rejects and a valid one), or
\* another value.
Batches ==
    {<<i, j>> : i \in ItemsOf(AUSDT, RawRates), j \in ItemsOf(BUSDT, {0, 1})}
    \cup {<<[s |-> Str(AUPUSDT), r |-> Num(1)], [s |-> Str(AUSDT), r |-> Num(1)]>>,
          <<[s |-> Str(BUSDT), r |-> Num(1)], [s |-> Str(AUSDT), r |-> Num(10)]>>,
          <<>>}
DataValues ==
    {[kind |-> "dict", items |-> <<i>>] : i \in Items}
    \cup {[kind |-> "list", items |-> b] : b \in Batches}
    \cup {[kind |-> "other", items |-> <<>>]}

\* --- Python dicts: sequences of <<key, value>> in insertion order
KeySet(d) == {d[i][1] : i \in 1..Len(d)}
Keys(d) == [i \in 1..Len(d) |-> d[i][1]]
Has(d, k) == k \in KeySet(d)
IndexOf(d, k) == CHOOSE i \in 1..Len(d) : d[i][1] = k
Get(d, k) == d[IndexOf(d, k)][2]
Put(d, k, v) ==
    IF Has(d, k) THEN [d EXCEPT ![IndexOf(d, k)] = <<k, v>>] ELSE Append(d, <<k, v>>)
Pop(d, k) ==
    LET Keep(p) == p[1] # k
    IN  SelectSeq(d, Keep)

\* --- exact arithmetic: a float is a fraction num/den in lowest terms
Abs(x) == IF x < 0 THEN -x ELSE x

RECURSIVE GCD(_, _)
GCD(a, b) == IF b = 0 THEN a ELSE GCD(b, a % b)

Frac(n, d) ==
    LET g == GCD(Abs(n), Abs(d))
        sg == IF d < 0 THEN -1 ELSE 1
    IN  [num |-> (sg * n) \div g, den |-> (sg * d) \div g]
FAdd(a, b) == Frac(a.num * b.den + b.num * a.den, a.den * b.den)
FSub(a, b) == Frac(a.num * b.den - b.num * a.den, a.den * b.den)
FMul(a, b) == Frac(a.num * b.num, a.den * b.den)
FDiv(a, b) == Frac(a.num * b.den, a.den * b.num)
FLess(a, b) == a.num * b.den < b.num * a.den
Zero == Frac(0, 1)

\* --- input validation
\* float(x): a number, nan, or ValueError (FALSE).
float_ok(v) == v.kind # "text"

NoRate == [none |-> TRUE, symbol |-> NotStr, nan |-> FALSE, rate |-> 0]
RateOf(sym, v, factor) ==
    IF float_ok(v)
    THEN [none |-> FALSE, symbol |-> sym, nan |-> v.kind = "nan", rate |-> v.val * factor]
    ELSE NoRate

\* _extract_rate (lines 151-162): (symbol, rate) or (None, None).
extract_rate(item) ==
    IF {"s", "r"} \subseteq DOMAIN item
    THEN RateOf(item.s, item.r, PERCENT)
    ELSE IF {"symbol", "fundingRate"} \subseteq DOMAIN item
    THEN RateOf(item.symbol, item.fundingRate, PERCENT)
    ELSE IF {"symbol", "funding_rate"} \subseteq DOMAIN item
    THEN RateOf(item.symbol, item.funding_rate, 1)
    ELSE NoRate

\* A validation without the bound on the rate.
validate_item_unbounded(item) ==
    /\ "scalar" \notin DOMAIN item
    /\ ~extract_rate(item).none
    /\ extract_rate(item).symbol.isstr

\* _validate_item (lines 164-180).
validate_item(item) ==
    /\ "scalar" \notin DOMAIN item
    /\ LET e == extract_rate(item)
       IN  /\ ~e.none
           /\ e.symbol.isstr
           /\ ~e.nan
           /\ -RATE_LIMIT < e.rate /\ e.rate < RATE_LIMIT

EndsWith(str, suffix) ==
    /\ Len(str) >= Len(suffix)
    /\ SubSeq(str, Len(str) - Len(suffix) + 1, Len(str)) = suffix
Contains(str, kw) ==
    \E i \in 1..(Len(str) - Len(kw) + 1) : SubSeq(str, i, i + Len(kw) - 1) = kw

\* _should_process_symbol (lines 182-188).
should_process_symbol(symbol) ==
    /\ EndsWith(symbol, SYMBOL_SUFFIX_FILTER)
    /\ \A kw \in SYMBOL_EXCLUDE_KEYWORDS : ~Contains(symbol, kw)

\* --- statistics (pandas Series.mean / Series.std)
RECURSIVE SumSeq(_)
SumSeq(h) == IF h = <<>> THEN 0 ELSE Head(h) + SumSeq(Tail(h))

mean(h) == Frac(SumSeq(h), Len(h))

\* Sum of the squared deviations from m.
RECURSIVE SumSqDev(_, _)
SumSqDev(h, m) ==
    IF h = <<>> THEN Zero
    ELSE LET d == FSub(Frac(Head(h), 1), m)
         IN  FAdd(FMul(d, d), SumSqDev(Tail(h), m))

\* The population variance (divisor n).
variance_population(h) == FDiv(SumSqDev(h, mean(h)), Frac(Len(h), 1))

\* Series.std() is the sample standard deviation (ddof = 1).  The model
\* carries a standard deviation as its square, the variance, and a score
\* |z| as z squared: both are exact fractions, and squaring keeps the order
\* of non-negative numbers, so every comparison of the code is preserved.
variance(h) == FDiv(SumSqDev(h, mean(h)), Frac(Len(h) - 1, 1))

Sign(x) == IF x > 0 THEN 1 ELSE IF x < 0 THEN -1 ELSE 0
AllButLast(h) == SubSeq(h, 1, Len(h) - 1)
Last(h) == h[Len(h)]

\* pd.isna(std_dev) or std_dev < 1e-10: on the rates of the model a
\* deviation below the epsilon is zero.
negligible(var) == var.num = 0

\* A z-score whose mean and deviation take in the current point.
z_score_with_current(historical, current) ==
    LET d == FSub(Frac(current, 1), mean(Append(historical, current)))
    IN  [sign |-> Sign(d.num),
         sq |-> FDiv(FMul(d, d), variance(Append(historical, current)))]

\* z = (current - mean) / std (lines 215, 333) as sign and square.
z_score_of(historical, current) ==
    LET d == FSub(Frac(current, 1), mean(historical))
    IN  [sign |-> Sign(d.num), sq |-> FDiv(FMul(d, d), variance(historical))]

\* --- ingest
\* The per-symbol tables an ingest works on.
CoreState ==
    [current_rates |-> current_rates, rate_history |-> rate_history,
     volatility_data |-> volatility_data, champion_records |-> champion_records,
     symbol_last_seen |-> symbol_last_seen]

\* Lines 220-225: a champion older than the TTL is deleted.
expire_champion(champs, symbol) ==
    IF Has(champs, symbol) /\ now - Get(champs, symbol).champion_timestamp > champion_ttl
    THEN Pop(champs, symbol)
    ELSE champs

\* A comparison that also lets an equal score replace the record.
is_new_champion_or_equal(champs, symbol, current_volatility) ==
    \/ ~Has(champs, symbol)
    \/ ~FLess(current_volatility, Get(champs, symbol).max_volatility)

\* Lines 228-231.
is_new_champion(champs, symbol, current_volatility) ==
    \/ ~Has(champs, symbol)
    \/ FLess(Get(champs, symbol).max_volatility, current_volatility)

\* A scoring that keeps the champion and leaves the cached score unwritten.
record_score_champion_only(st, symbol, old_rate, new_rate, z, moving_average, std_dev) ==
    LET champs1 == expire_champion(st.champion_records, symbol)
    IN  [st EXCEPT
            !.champion_records =
                IF is_new_champion(champs1, symbol, z.sq)
                THEN Put(champs1, symbol,
                         [max_volatility |-> z.sq,
                          z_score |-> z,
                          moving_average |-> moving_average,
                          std_dev |-> std_dev,
                          champion_old_rate |-> old_rate,
                          champion_new_rate |-> new_rate,
                          champion_timestamp |-> now,
                          champion_age_hours |-> 0])
                ELSE champs1]

\* Lines 216-260: the champion and the cached score entry of symbol for the
\* z-score z computed with moving_average and std_dev.
record_score(st, symbol, old_rate, new_rate, z, moving_average, std_dev) ==
    LET current_volatility == z.sq
        champs1 == expire_champion(st.champion_records, symbol)
        champs2 ==
            IF is_new_champion(champs1, symbol, current_volatility)
            THEN Put(champs1, symbol,
                     [max_volatility |-> current_volatility,
                      z_score |-> z,
                      moving_average |-> moving_average,
                      std_dev |-> std_dev,
                      champion_old_rate |-> old_rate,
                      champion_new_rate |-> new_rate,
                      champion_timestamp |-> now,
                      champion_age_hours |-> 0])
            ELSE champs1
        champion == Get(champs2, symbol)
        champion_info ==
            [champion EXCEPT !.champion_age_hours = now - champion.champion_timestamp]
    IN  [st EXCEPT
            !.champion_records = Put(champs2, symbol, champion_info),
            !.volatility_data =
                Put(st.volatility_data, symbol,
                    [combined |-> champion_info.max_volatility,
                     z_score |-> champion_info.z_score,
                     moving_average |-> champion_info.moving_average,
                     std_dev |-> champion_info.std_dev,
                     rate_change |-> champion_info.champion_new_rate
                                     - champion_info.champion_old_rate,
                     champion_info |-> champion_info,
                     timestamp |-> now])]

\* A scoring that starts at two points and takes the whole window as the
\* historical partition.
calculate_volatility_from_two(st, symbol, old_rate, new_rate) ==
    IF ~Has(st.rate_history, symbol) \/ Len(Get(st.rate_history, symbol)) < 2
    THEN st
    ELSE LET historical == Get(st.rate_history, symbol)
         IN  IF negligible(variance(historical))
             THEN st
             ELSE record_score(st, symbol, old_rate, new_rate,
                               z_score_of(historical, new_rate),
                               mean(historical), variance(historical))

\* _calculate_volatility (lines 190-263).
calculate_volatility(st, symbol, old_rate, new_rate) ==
    IF ~Has(st.rate_history, symbol) \/ Len(Get(st.rate_history, symbol)) < 3
    THEN st
    ELSE LET historical == AllButLast(Get(st.rate_history, symbol))
         IN  IF Len(historical) < 2 \/ negligible(variance(historical))
             THEN st
             ELSE record_score(st, symbol, old_rate, new_rate,
                               z_score_of(historical, new_rate),
                               mean(historical), variance(historical))

\* A window that evicts the newest point.
keep_oldest(h) == IF Len(h) > window_size THEN SubSeq(h, 1, window_size) ELSE h

\* Lines 135-136: the last window_size points are kept.
keep_window(h) ==
    IF Len(h) > window_size THEN SubSeq(h, Len(h) - window_size + 1, Len(h)) ELSE h

\* An item processing that computes the score at every accepted item.
process_single_item_always_scores(st, item) ==
    IF ~validate_item(item) THEN [st |-> st, ok |-> FALSE]
    ELSE LET symbol == extract_rate(item).symbol.chars
             new_rate == extract_rate(item).rate
         IN  IF ~should_process_symbol(symbol) THEN [st |-> st, ok |-> FALSE]
             ELSE LET old_rate == IF Has(st.current_rates, symbol)
                                  THEN Get(st.current_rates, symbol) ELSE new_rate
                      longer == IF Has(st.rate_history, symbol)
                                THEN Append(Get(st.rate_history, symbol), new_rate)
                                ELSE <<new_rate>>
                      st1 == [st EXCEPT
                                !.current_rates = Put(@, symbol, new_rate),
                                !.rate_history = Put(@, symbol, keep_window(longer)),
                                !.symbol_last_seen = Put(@, symbol, now)]
                  IN  [st |-> calculate_volatility(st1, symbol, old_rate, new_rate),
                       ok |-> TRUE]

\* _process_single_item (lines 106-149): the tables after the item, and
\* whether it was processed.
process_single_item(st, item) ==
    IF ~validate_item(item) THEN [st |-> st, ok |-> FALSE]
    ELSE LET symbol == extract_rate(item).symbol.chars
             new_rate == extract_rate(item).rate
         IN  IF ~should_process_symbol(symbol) THEN [st |-> st, ok |-> FALSE]
             ELSE LET old_rate == IF Has(st.current_rates, symbol)
                                  THEN Get(st.current_rates, symbol) ELSE new_rate
                      longer == IF Has(st.rate_history, symbol)
                                THEN Append(Get(st.rate_history, symbol), new_rate)
                                ELSE <<new_rate>>
                      st1 == [st EXCEPT
                                !.current_rates = Put(@, symbol, new_rate),
                                !.rate_history = Put(@, symbol, keep_window(longer)),
                                !.symbol_last_seen = Put(@, symbol, now)]
                  IN  [st |-> IF new_rate # old_rate
                              THEN calculate_volatility(st1, symbol, old_rate, new_rate)
                              ELSE st1,
                       ok |-> TRUE]

\* A loop that the first item not processed brings to an end.
RECURSIVE process_items_until_rejected(_, _)
process_items_until_rejected(st, items) ==
    IF items = <<>> THEN [st |-> st, processed_count |-> 0]
    ELSE LET first == process_single_item(st, Head(items))
             rest == process_items_until_rejected(first.st, Tail(items))
         IN  IF first.ok
             THEN [st |-> rest.st, processed_count |-> rest.processed_count + 1]
             ELSE [st |-> st, processed_count |-> 0]

\* The loop of lines 93-96 over the items of a batch.
RECURSIVE process_items(_, _)
process_items(st, items) ==
    IF items = <<>> THEN [st |-> st, processed_count |-> 0]
    ELSE LET first == process_single_item(st, Head(items))
             rest == process_items(first.st, Tail(items))
         IN  [st |-> rest.st,
              processed_count |-> rest.processed_count + (IF first.ok THEN 1 ELSE 0)]

\* A cleanup that also removes a symbol whose idle time is just the threshold.
inactive_symbols_at_threshold(last_seen) ==
    {k \in KeySet(last_seen) : now - Get(last_seen, k) >= inactive_threshold}

\* The symbols a cleanup removes (lines 346-349).
inactive_symbols(last_seen) ==
    {k \in KeySet(last_seen) : now - Get(last_seen, k) > inactive_threshold}

RECURSIVE PopAll(_, _)
PopAll(d, ks) ==
    IF ks = {} THEN d
    ELSE LET k == CHOOSE x \in ks : TRUE
         IN  PopAll(Pop(d, k), ks \ {k})

\* A cleanup that leaves the champion and the cached score behind.
cleanup_caches_partial(st) ==
    LET gone == inactive_symbols(st.symbol_last_seen)
    IN  [st EXCEPT !.current_rates = PopAll(@, gone),
                   !.rate_history = PopAll(@, gone),
                   !.symbol_last_seen = PopAll(@, gone)]

\* _cleanup_caches (lines 340-364).
cleanup_caches(st) ==
    LET gone == inactive_symbols(st.symbol_last_seen)
    IN  [current_rates |-> PopAll(st.current_rates, gone),
         rate_history |-> PopAll(st.rate_history, gone),
         volatility_data |-> PopAll(st.volatility_data, gone),
         champion_records |-> PopAll(st.champion_records, gone),
         symbol_last_seen |-> PopAll(st.symbol_last_seen, gone)]

\* --- ranking
\* _calculate_current_zscore (lines 313-338): the live score of symbol.
calculate_current_zscore(symbol) ==
    IF ~Has(rate_history, symbol) \/ Len(Get(rate_history, symbol)) < 3
    THEN Zero
    ELSE LET historical == AllButLast(Get(rate_history, symbol))
             current_rate == Last(Get(rate_history, symbol))
         IN  IF Len(historical) < 2 \/ negligible(variance(historical))
             THEN Zero
             ELSE z_score_of(historical, current_rate).sq

\* Lines 281-289: the score the ranking uses for symbol.
ranking_score(symbol) ==
    IF /\ Has(champion_records, symbol)
       /\ now - Get(champion_records, symbol).champion_timestamp <= champion_ttl
    THEN Get(champion_records, symbol).max_volatility
    ELSE calculate_current_zscore(symbol)

Positive(score) == FLess(Zero, score)

\* Lines 279-292: the symbols with a positive score, in the order of the
\* keys of current_rates.
ranking_data ==
    LET Scored(symbol) == Positive(ranking_score(symbol))
    IN  SelectSeq(Keys(current_rates), Scored)

\* np.argsort(scores): the indices in ascending order of the scores.  The
\* default sort is not stable: equal scores come in the order of the build.
TieOrders == {"stable", "reversed"}
Precedes(scores, i, j) ==
    \/ FLess(scores[i], scores[j])
    \/ /\ scores[i] = scores[j]
       /\ IF argsort_ties = "stable" THEN i < j ELSE i > j
argsort(scores) ==
    [p \in 1..Len(scores) |->
        CHOOSE i \in 1..Len(scores) :
            Cardinality({j \in 1..Len(scores) : Precedes(scores, j, i)}) = p - 1]

Reverse(q) == [p \in 1..Len(q) |-> q[Len(q) + 1 - p]]
Min(a, b) == IF a < b THEN a ELSE b

\* A ranking that takes the indices in ascending order.
sorted_ascending(scores) == argsort(scores)

\* Line 300: np.argsort(scores)[::-1].
sorted_descending(scores) == Reverse(argsort(scores))

\* Lines 296-304: the top of the ranking data rd.
new_top5(rd) ==
    LET scores == [i \in 1..Len(rd) |-> ranking_score(rd[i])]
        sorted_indices == sorted_descending(scores)
        top_count == Min(TOP_RANKING_COUNT, Len(sorted_indices))
    IN  [p \in 1..top_count |-> rd[sorted_indices[p]]]

\* An assignment at every round that found a positive score.
assigns_top5_always == ranking_data # <<>>

\* Lines 295 and 306: the round assigns self.top5_symbols.
assigns_top5 == ranking_data # <<>> /\ new_top5(ranking_data) # top5_symbols

\* _update_top5_ranking (lines 274-311): the published ranking afterwards.
update_top5_ranking ==
    IF ranking_data # <<>> /\ new_top5(ranking_data) # top5_symbols
    THEN new_top5(ranking_data)
    ELSE top5_symbols

\* --- actions of the core
\* The record without the age the code refreshes at every score.
Essential(champion) == [champion EXCEPT !.champion_age_hours = 0]

\* The dict a caller got under 'champion_info' from get_symbol_analysis,
\* after update_data took the champion table from before through the items
\* (after_items) and the cleanup (after_cleanup): line 249 writes the age
\* into the dict that is in the table; a new champion (line 234) is a new
\* dict, and a deleted one (lines 224, 358) is no longer in the table.
caller_after(c, before, after_items, after_cleanup) ==
    IF ~c.aliased THEN c
    ELSE LET symbol == c.value.symbol
         IN  IF /\ Has(before, symbol)
                /\ Has(after_items, symbol)
                /\ Essential(Get(after_items, symbol)) = Essential(Get(before, symbol))
             THEN [c EXCEPT !.object = Get(after_items, symbol),
                            !.aliased = Has(after_cleanup, symbol)]
             ELSE [c EXCEPT !.aliased = FALSE]

\* Lines 87-91: the items of the argument.
items_to_process(data) ==
    IF data.kind = "list" THEN data.items
    ELSE IF data.kind = "dict" THEN <<data.items[1]>>
    ELSE <<>>

\* update_data (lines 83-104), under data_lock.  With observe, the history
\* variable records what became of the items of the call.
IngestBody(data, observe) ==
    /\ \E res \in {process_items(CoreState, items_to_process(data))} :
       \E count \in {IF res.processed_count > 0 THEN data_update_count + 1
                     ELSE data_update_count} :
       \E st \in {IF count # data_update_count /\ count % CleanupEvery = 0
                  THEN cleanup_caches(res.st) ELSE res.st} :
           /\ current_rates' = st.current_rates
           /\ rate_history' = st.rate_history
           /\ volatility_data' = st.volatility_data
           /\ champion_records' = st.champion_records
           /\ symbol_last_seen' = st.symbol_last_seen
           /\ data_update_count' = count
           /\ total_symbols' = IF count # data_update_count
                               THEN Len(res.st.current_rates) ELSE total_symbols
           /\ last_update_time' = IF count # data_update_count
                                  THEN now ELSE last_update_time
           /\ last_batch' =
                  IF observe
                  THEN [processed |-> res.processed_count,
                        rejected |-> Len(items_to_process(data)) - res.processed_count]
                  ELSE last_batch
           /\ caller' = caller_after(caller, champion_records,
                                     res.st.champion_records, st.champion_records)
    /\ last_round' = "none"
    /\ UNCHANGED <<now, top5_symbols, window_size, argsort_ties, lockVars,
                   loopVars, clientVars>>

Ingest(data, observe) ==
    /\ data_update_count < MaxUpdates
    /\ IngestBody(data, observe)
    /\ UNCHANGED feed

UpdateData(data) == Ingest(data, FALSE)

\* One round of _ranking_loop (lines 75-81), under data_lock.  With observe,
\* the history variable records whether the round assigned the ranking.
Rank(observe) ==
    /\ top5_symbols' = update_top5_ranking
    /\ last_round' = IF ~observe THEN "none"
                      ELSE IF assigns_top5 THEN "assigned" ELSE "kept"
    /\ UNCHANGED <<now, current_rates, rate_history, volatility_data,
                   champion_records, total_symbols, data_update_count,
                   last_update_time, symbol_last_seen, argsort_ties,
                   window_size, feed, loopVars, last_batch,
                   lockVars, caller, clientVars>>

RankingRound == Rank(FALSE)

\* The clock advances.
Tick ==
    /\ now < MaxTime
    /\ now' = now + 1
    /\ UNCHANGED <<current_rates, rate_history, volatility_data, top5_symbols,
                   champion_records, total_symbols, data_update_count,
                   last_update_time, symbol_last_seen, argsort_ties,
                   window_size, feed, loopVars, last_batch,
                   lockVars, caller, clientVars>>
    /\ last_round' = "none"

\* The core as main.py runs it: the handler registered with the client is
\* the plain function update_data.
CoreInit ==
    /\ ClientInit
    /\ handlerKind = "sync"
    /\ BusinessCoreInit
    /\ argsort_ties \in TieOrders

CoreNext ==
    \/ \E data \in DataValues : UpdateData(data)
    \/ RankingRound
    \/ Tick

CoreSpec == CoreInit /\ [][CoreNext]_vars

CoreTypeOK ==
    /\ now \in 1..MaxTime
    /\ data_update_count \in 0..MaxUpdates
    /\ KeySet(current_rates) \subseteq {AUSDT, BUSDT}
    /\ Len(top5_symbols) <= TOP_RANKING_COUNT

\* ----------------------------------------------------------------- C12
HistoryOf(table, symbol) == IF Has(table, symbol) THEN Get(table, symbol) ELSE <<>>

\* The n most recent points of h, oldest first.
MostRecent(h, n) == [i \in 1..Min(n, Len(h)) |-> h[Len(h) - Min(n, Len(h)) + i]]

\* C12: the retained history of a symbol never has more than window_size
\* points, and a step changes it only by appending the newly observed rate
\* (the symbol's current rate) and keeping the window_size most recent
\* points in arrival order, so that the oldest point is the one evicted;
\* the newest retained point is always the symbol's latest observed rate.
C12_WindowBounded ==
    /\ [](\A i \in 1..Len(rate_history) : Len(rate_history[i][2]) <= window_size)
    /\ [](\A symbol \in KeySet(rate_history) :
             /\ Has(current_rates, symbol)
             /\ Last(Get(rate_history, symbol)) = Get(current_rates, symbol))
    /\ [][\A symbol \in KeySet(rate_history') :
             \/ HistoryOf(rate_history', symbol) = HistoryOf(rate_history, symbol)
             \/ HistoryOf(rate_history', symbol) =
                    MostRecent(Append(HistoryOf(rate_history, symbol),
                                      Get(current_rates', symbol)),
                               window_size)]_vars

\* Four observations of one symbol with no eviction of a symbol in between:
\* the window holds the last window_size of them.
C12_Witness ==
    /\ now = 1
    /\ data_update_count = window_size + 1
    /\ KeySet(current_rates) = {AUSDT}
    /\ Get(rate_history, AUSDT) = <<100, 200, 0>>

\* ----------------------------------------------------------------- C13
\* update_data with the outcome of its items recorded.
ObservedUpdate(data) == Ingest(data, TRUE)

IngestNext ==
    \/ \E data \in DataValues : ObservedUpdate(data)
    \/ Tick

\* No ranking is sorted here, so the tie order of the sort plays no part.
IngestInit ==
    /\ ClientInit
    /\ handlerKind = "sync"
    /\ BusinessCoreInit
    /\ argsort_ties = "stable"

IngestSpec == IngestInit /\ [][IngestNext]_vars

\* The per-symbol tables of the core.
PerSymbolTables ==
    <<rate_history, current_rates, champion_records, volatility_data,
      symbol_last_seen>>
PerSymbolKeys ==
    KeySet(rate_history) \cup KeySet(current_rates) \cup KeySet(champion_records)
    \cup KeySet(volatility_data) \cup KeySet(symbol_last_seen)

InBound(rate) == -RATE_LIMIT < rate /\ rate < RATE_LIMIT

\* The entry of symbol differs between the two states of a step in some
\* per-symbol table.
EntryChanged(symbol) ==
    \/ HistoryOf(rate_history', symbol) # HistoryOf(rate_history, symbol)
    \/ Has(current_rates, symbol) # Has(current_rates', symbol)
    \/ Has(current_rates, symbol) /\ Get(current_rates', symbol) # Get(current_rates, symbol)
    \/ Has(champion_records, symbol) # Has(champion_records', symbol)
    \/ Has(champion_records, symbol)
          /\ Get(champion_records', symbol) # Get(champion_records, symbol)
    \/ Has(volatility_data, symbol) # Has(volatility_data', symbol)
    \/ Has(volatility_data, symbol)
          /\ Get(volatility_data', symbol) # Get(volatility_data, symbol)
    \/ Has(symbol_last_seen, symbol) # Has(symbol_last_seen', symbol)
    \/ Has(symbol_last_seen, symbol)
          /\ Get(symbol_last_seen', symbol) # Get(symbol_last_seen, symbol)

\* C13: every key of the series, current-rate, champion, cached-score and
\* last-seen tables passes the symbol filter and every stored rate is inside
\* the sanity bound; a call of update_data whose items are all turned away
\* leaves the per-symbol tables as they were, and a call changes the entries
\* of at most as many retained symbols as it processed items.
C13_RejectedNeverStored ==
    /\ [](\A symbol \in PerSymbolKeys : should_process_symbol(symbol))
    /\ [](\A i \in 1..Len(current_rates) : InBound(current_rates[i][2]))
    /\ [](\A i \in 1..Len(rate_history) :
             \A j \in 1..Len(rate_history[i][2]) : InBound(rate_history[i][2][j]))
    /\ [](\A i \in 1..Len(champion_records) :
             /\ InBound(champion_records[i][2].champion_old_rate)
             /\ InBound(champion_records[i][2].champion_new_rate))
    /\ [][/\ ((last_batch' # last_batch /\ last_batch'.processed = 0)
                  => UNCHANGED PerSymbolTables)
           /\ ((now' = now)
                  => (Cardinality({symbol \in KeySet(current_rates') :
                                      EntryChanged(symbol)})
                         <= last_batch'.processed))]_vars

\* A list of two items, the first for a symbol holding the keyword "UP",
\* the second acceptable: only the second is stored.
C13_Witness ==
    /\ last_batch = [processed |-> 1, rejected |-> 1]
    /\ data_update_count = 1
    /\ current_rates = << <<AUSDT, 100>> >>
    /\ rate_history = << <<AUSDT, <<100>> >> >>
    /\ symbol_last_seen = << <<AUSDT, now>> >>

\* ----------------------------------------------------------------- C14
\* A step gives symbol its third retained point.
ThirdPointArrives(symbol) ==
    /\ Len(HistoryOf(rate_history, symbol)) = 2
    /\ Len(HistoryOf(rate_history', symbol)) = 3

\* The first two points differ and the third differs from the second.
ThreeDistinct(h) == h[1] # h[2] /\ h[3] # h[2]

\* C14: a symbol with fewer than 3 retained points has neither a champion
\* record nor a cached score; the step that brings the third point creates
\* both, stamped with the current time, exactly when the points are
\* distinct (the first two differ and the third differs from the second).
C14_ScoreFromThirdPoint ==
    /\ [](\A symbol \in KeySet(champion_records) \cup KeySet(volatility_data) :
             Len(HistoryOf(rate_history, symbol)) >= 3)
    /\ [][\A symbol \in KeySet(rate_history') :
             ThirdPointArrives(symbol) =>
                 /\ ~Has(champion_records, symbol)
                 /\ Has(champion_records', symbol)
                        = ThreeDistinct(Get(rate_history', symbol))
                 /\ Has(volatility_data', symbol) = Has(champion_records', symbol)
                 /\ Has(champion_records', symbol)
                        => Get(champion_records', symbol).champion_timestamp = now]_vars

\* The third point of a symbol has just produced its first score.
C14_Witness ==
    /\ data_update_count = 3
    /\ Has(champion_records, AUSDT)
    /\ Get(rate_history, AUSDT) = <<0, 100, 200>>
    /\ Get(volatility_data, AUSDT).combined = Frac(9, 2)

\* ----------------------------------------------------------------- C15
RECURSIVE SumSquares(_)
SumSquares(h) == IF h = <<>> THEN 0 ELSE Head(h) * Head(h) + SumSquares(Tail(h))

\* n*Q - S^2 for the n points of h with sum S and sum of squares Q: n*(n-1)
\* times the sample variance, zero exactly when all points are equal.
Spread(h) == Len(h) * SumSquares(h) - SumSeq(h) * SumSeq(h)

\* moving_average, std_dev (as its square) and z (as sign and square) are
\* the sample mean S/n, the sample variance (n*Q - S^2)/(n*(n-1)) and
\* (current - S/n) over the sample standard deviation, in integers.
SampleStatistics(historical, current, z, moving_average, std_dev) ==
    LET n == Len(historical)
        S == SumSeq(historical)
        dev == n * current - S
    IN  /\ moving_average.num * n = moving_average.den * S
        /\ std_dev.num * n * (n - 1) = std_dev.den * Spread(historical)
        /\ z.sign = Sign(dev)
        /\ z.sq.num * n * Spread(historical) = z.sq.den * dev * dev * (n - 1)

\* The step writes a champion record for symbol: a first one, or one whose
\* fields other than the age differ from the record before.
ChampionWritten(symbol) ==
    /\ Has(champion_records', symbol)
    /\ \/ ~Has(champion_records, symbol)
       \/ [Get(champion_records', symbol) EXCEPT !.champion_age_hours = 0]
             # [Get(champion_records, symbol) EXCEPT !.champion_age_hours = 0]

\* C15: a champion record written by a step holds z = (current - mean) / s
\* for the most recent retained point, with the sample mean and the sample
\* standard deviation (n-1 divisor) of all retained points but the most
\* recent, and the score |z|; the live score of the ranking is the same
\* quantity; no score is produced when the historical points are all equal
\* (s below the epsilon).  For [1,2,3] the mean is 2 and s is 1.
C15_SampleZScore ==
    /\ [](mean(<<1, 2, 3>>) = Frac(2, 1) /\ variance(<<1, 2, 3>>) = Frac(1, 1))
    /\ [](\A symbol \in KeySet(rate_history) :
             LET h == Get(rate_history, symbol)
                 live == calculate_current_zscore(symbol)
             IN  Len(h) >= 3 =>
                   /\ Spread(AllButLast(h)) = 0 => live = Zero
                   /\ Spread(AllButLast(h)) # 0 =>
                         SampleStatistics(AllButLast(h), Last(h),
                                          [sign |-> Sign(Len(h) * Last(h) - Last(h)
                                                         - SumSeq(AllButLast(h))),
                                           sq |-> live],
                                          mean(AllButLast(h)), variance(AllButLast(h))))
    /\ [][\A symbol \in KeySet(champion_records') :
             ChampionWritten(symbol) =>
                 LET h == Get(rate_history', symbol)
                     champion == Get(champion_records', symbol)
                 IN  /\ Spread(AllButLast(h)) # 0
                     /\ champion.champion_new_rate = Last(h)
                     /\ champion.max_volatility = champion.z_score.sq
                     /\ SampleStatistics(AllButLast(h), Last(h), champion.z_score,
                                         champion.moving_average, champion.std_dev)]_vars

\* The third point 2.0 after 0.0 and 1.0 (in percent 0, 100, 200): mean 50,
\* variance 5000, z = 150 / sqrt(5000), z^2 = 9/2.
C15_Witness ==
    /\ Has(champion_records, AUSDT)
    /\ Get(rate_history, AUSDT) = <<0, 100, 200>>
    /\ Get(champion_records, AUSDT).moving_average = Frac(50, 1)
    /\ Get(champion_records, AUSDT).std_dev = Frac(5000, 1)
    /\ Get(champion_records, AUSDT).z_score = [sign |-> 1, sq |-> Frac(9, 2)]
    /\ Get(champion_records, AUSDT).champion_timestamp = now

\* ----------------------------------------------------------------- C16
\* The champion of symbol is within its TTL (lines 221-223).
WithinTTL(champs, symbol) ==
    /\ Has(champs, symbol)
    /\ now - Get(champs, symbol).champion_timestamp <= champion_ttl

\* The champion scores after each of a sequence of scores computed within
\* one TTL window (lines 228-234).
RECURSIVE ChampionsAfter(_, _)
ChampionsAfter(champs, scores) ==
    IF scores = <<>> THEN <<>>
    ELSE LET next == IF is_new_champion(champs, AUSDT, Head(scores))
                     THEN Put(champs, AUSDT, [max_volatility |-> Head(scores)])
                     ELSE champs
         IN  <<Get(next, AUSDT).max_volatility>> \o ChampionsAfter(next, Tail(scores))

\* C16: while the champion of a symbol is within its TTL, a step either
\* leaves its score, z, mean, standard deviation, previous and new rate and
\* creation timestamp as they were, or replaces it by a record with a
\* strictly greater score created at the current time.  The scores 1.0,
\* 0.5, 2.0, 1.8 leave the champions 1.0, 1.0, 2.0, 2.0.
C16_ChampionMonotonic ==
    /\ [](ChampionsAfter(<<>>, <<Frac(1, 1), Frac(1, 2), Frac(2, 1), Frac(9, 5)>>)
             = <<Frac(1, 1), Frac(1, 1), Frac(2, 1), Frac(2, 1)>>)
    /\ [][\A symbol \in KeySet(champion_records) :
             WithinTTL(champion_records, symbol) =>
                 /\ Has(champion_records', symbol)
                 /\ \/ Essential(Get(champion_records', symbol))
                          = Essential(Get(champion_records, symbol))
                    \/ /\ FLess(Get(champion_records, symbol).max_volatility,
                                 Get(champion_records', symbol).max_volatility)
                       /\ Get(champion_records', symbol).champion_timestamp = now]_vars

\* Within one TTL window the first symbol scored 1/2 and then 9/2, which
\* replaced its champion; the second scored 1/2 twice, and its champion is
\* still the first one (new rate 0) although the current rate is 100.
C16_Witness ==
    /\ now = 1
    /\ KeySet(champion_records) = {AUSDT, BUSDT}
    /\ Get(rate_history, AUSDT) = <<100, 0, 200>>
    /\ Get(champion_records, AUSDT).max_volatility = Frac(9, 2)
    /\ Get(champion_records, AUSDT).champion_new_rate = 200
    /\ Get(rate_history, BUSDT) = <<100, 0, 100>>
    /\ calculate_current_zscore(BUSDT) = Frac(1, 2)
    /\ Get(champion_records, BUSDT).max_volatility = Frac(1, 2)
    /\ Get(champion_records, BUSDT).champion_new_rate = 0

\* ------------------------------------------------------------ accessors
\* get_top5_data (lines 366-412): one entry for each symbol of the published
\* ranking that has a cached score, read from volatility_data.
get_top5_data ==
    LET Cached(symbol) == Has(volatility_data, symbol)
        listed == SelectSeq(top5_symbols, Cached)
    IN  [i \in 1..Len(listed) |->
            LET volatility_info == Get(volatility_data, listed[i])
                champion_info == volatility_info.champion_info
            IN  [symbol |-> listed[i],
                 current_rate |-> champion_info.champion_new_rate,
                 rate_change |-> volatility_info.rate_change,
                 volatility |-> volatility_info.combined,
                 z_score |-> champion_info.z_score,
                 moving_average |-> champion_info.moving_average,
                 std_dev |-> champion_info.std_dev,
                 champion_timestamp |-> champion_info.champion_timestamp,
                 timestamp |-> volatility_info.timestamp]]

\* Line 475: the recent champions are those younger than 900 s, the value
\* of champion_ttl.
recent_window == champion_ttl

\* np.argmax: the first index holding the maximum.
argmax(scores) ==
    CHOOSE i \in 1..Len(scores) :
        /\ \A j \in 1..Len(scores) : ~FLess(scores[i], scores[j])
        /\ \A j \in 1..(i - 1) : FLess(scores[j], scores[i])

\* get_champion_summary (lines 449-490).
get_champion_summary ==
    IF champion_records = <<>>
    THEN [total_champions |-> 0, recent_champions |-> 0]
    ELSE LET volatilities ==
                 [i \in 1..Len(champion_records) |-> champion_records[i][2].max_volatility]
             timestamps ==
                 [i \in 1..Len(champion_records) |-> champion_records[i][2].champion_timestamp]
             max_idx == argmax(volatilities)
         IN  [total_champions |-> Len(champion_records),
              recent_champions |->
                  Cardinality({i \in 1..Len(timestamps) : now - timestamps[i] < recent_window}),
              max_volatility_champion |->
                  [symbol |-> champion_records[max_idx][1],
                   volatility |-> volatilities[max_idx],
                   age_hours |-> now - timestamps[max_idx]]]

\* dict.setdefault in the place of dict.get: the lookup inserts the default.
champion_setdefault(champs, symbol) ==
    [table |-> IF Has(champs, symbol) THEN champs ELSE Put(champs, symbol, <<>>),
     value |-> IF Has(champs, symbol) THEN Get(champs, symbol) ELSE <<>>]

\* self.champion_records.get(symbol, {}) (line 543): the table after the
\* lookup, and the dict it yields: the one in the table, or a new empty one.
champion_get(champs, symbol) ==
    [table |-> champs,
     value |-> IF Has(champs, symbol) THEN Get(champs, symbol) ELSE <<>>]

\* The None get_symbol_analysis returns, told apart from every detail.
NoAnalysis == [none |-> TRUE]

\* get_symbol_analysis (lines 515-550): None, or the detail of symbol.  Of
\* the statistics of the whole series the mean and the deviation are kept;
\* an absent champion is the empty dict.
get_symbol_analysis(symbol) ==
    IF ~Has(rate_history, symbol) \/ Len(Get(rate_history, symbol)) < 2
    THEN NoAnalysis
    ELSE [symbol |-> symbol,
          current_rate |-> IF Has(current_rates, symbol)
                           THEN Get(current_rates, symbol) ELSE 0,
          data_points |-> Len(Get(rate_history, symbol)),
          mean |-> mean(Get(rate_history, symbol)),
          std |-> variance(Get(rate_history, symbol)),
          champion_info |-> champion_get(champion_records, symbol).value,
          last_update |-> IF Has(symbol_last_seen, symbol)
                          THEN Get(symbol_last_seen, symbol) ELSE 0]

\* ----------------------------------------------------------------- C17
\* The champion timestamps a query can still come across, in the champion
\* table or in the cached score entries, that are older than the TTL.
ExpiredChampion(symbol) ==
    \/ Has(champion_records, symbol) /\ ~WithinTTL(champion_records, symbol)
    \/ /\ Has(volatility_data, symbol)
       /\ now - Get(volatility_data, symbol).champion_info.champion_timestamp
              > champion_ttl

\* C17: a champion older than the TTL is absent for every query: the
\* ranking accessor reports the live score of its symbol, the champion
\* summary neither counts it nor names it as the maximum, and the detail of
\* the symbol holds no champion.
C17_ExpiredChampionAbsent ==
    /\ \A symbol \in KeySet(champion_records) \cup KeySet(volatility_data) :
          ExpiredChampion(symbol) =>
              /\ \A i \in 1..Len(get_top5_data) :
                     get_top5_data[i].symbol = symbol =>
                         get_top5_data[i].volatility = calculate_current_zscore(symbol)
              /\ get_symbol_analysis(symbol) # NoAnalysis =>
                     "max_volatility" \notin DOMAIN get_symbol_analysis(symbol).champion_info
    /\ get_champion_summary.total_champions =
          Cardinality({symbol \in KeySet(champion_records) :
                          WithinTTL(champion_records, symbol)})
    /\ get_champion_summary.total_champions > 0 =>
          WithinTTL(champion_records, get_champion_summary.max_volatility_champion.symbol)

\* ----------------------------------------------------------------- C18
\* C18: the score the ranking accessor reports for a symbol is the score the
\* ranking recomputation uses for it: the champion score while the champion
\* is within its TTL, the live score of the current window afterwards.
C18_ReportedIsRanked ==
    \A i \in 1..Len(get_top5_data) :
        get_top5_data[i].volatility = ranking_score(get_top5_data[i].symbol)

\* ----------------------------------------------------------------- C19
\* The published ranking is what a recomputation leaves in this state: the
\* states a round of the ranking loop ends in are exactly these.
Recomputed == top5_symbols = update_top5_ranking

Listed == {top5_symbols[i] : i \in 1..Len(top5_symbols)}

\* C19: after a ranking recomputation every symbol of the snapshot is a
\* retained symbol whose current score (champion within its TTL, else live
\* score) is positive.
C19_SnapshotOnlyPositive ==
    Recomputed =>
        \A symbol \in Listed :
            /\ Has(current_rates, symbol)
            /\ Positive(ranking_score(symbol))

\* ----------------------------------------------------------------- C20
\* The published ranking is the result of a recomputation that found at
\* least one positive score.
Ranked == Recomputed /\ ranking_data # <<>>

\* The place of symbol in the insertion order of the scored symbols, which
\* is the order of the keys of current_rates (line 280).
InsertionOrder(symbol) == IndexOf(current_rates, symbol)

LeftOut == {ranking_data[i] : i \in 1..Len(ranking_data)} \ Listed

\* At most K distinct symbols with a positive score, as many as fit, in
\* non-increasing order of score, none left out with a strictly greater
\* score than a listed one.
TopByScore ==
    /\ Len(top5_symbols) = Min(TOP_RANKING_COUNT, Len(ranking_data))
    /\ \A i, j \in 1..Len(top5_symbols) : i < j => top5_symbols[i] # top5_symbols[j]
    /\ \A symbol \in Listed :
          Has(current_rates, symbol) /\ Positive(ranking_score(symbol))
    /\ \A i, j \in 1..Len(top5_symbols) :
          i < j => ~FLess(ranking_score(top5_symbols[i]), ranking_score(top5_symbols[j]))
    /\ \A out \in LeftOut : \A symbol \in Listed :
          ~FLess(ranking_score(symbol), ranking_score(out))

\* a comes before b in the insertion order (direction 1) or in its reverse
\* (direction -1).
Before(direction, a, b) == direction * (InsertionOrder(a) - InsertionOrder(b)) < 0

\* Symbols with equal scores come in the given direction of the insertion
\* order: the earlier one is listed first, and it is the one listed when
\* only one of them fits.
TiesOrderedBy(direction) ==
    /\ \A i, j \in 1..Len(top5_symbols) :
          (i < j /\ ranking_score(top5_symbols[i]) = ranking_score(top5_symbols[j]))
              => Before(direction, top5_symbols[i], top5_symbols[j])
    /\ \A out \in LeftOut : \A symbol \in Listed :
          ranking_score(symbol) = ranking_score(out) => Before(direction, symbol, out)

ObservedRanking == Rank(TRUE)

RankNext ==
    \/ \E data \in DataValues : UpdateData(data)
    \/ ObservedRanking
    \/ Tick

\* Whether a round assigns the ranking does not depend on how the sort
\* orders equal scores: one order is explored.
RankSpec == IngestInit /\ [][RankNext]_vars

\* The step is a round of the ranking loop.
RankingStep == last_round' # "none"

\* C21: a ranking round whose ordered symbol list equals the published one
\* does not assign the published ranking, and a round that assigns it
\* changes the list; right after a round the published list is the one a
\* further round computes from the same tables at the same time, so that
\* round assigns nothing.
C21_RankingStable ==
    [][RankingStep =>
          /\ (last_round' = "assigned") = (top5_symbols' # top5_symbols)
          /\ (ranking_data # <<>>) => (top5_symbols' = new_top5(ranking_data))
          /\ (ranking_data = <<>>) => (top5_symbols' = top5_symbols)]_vars

\* A round assigned the ranking and the next round, finding the same list,
\* did not.
C21_Witness ==
    /\ top5_symbols = <<AUSDT>>
    /\ ranking_data = <<AUSDT>>
    /\ last_round = "kept"

\* ------------------------------------------------- the threads of the core
\* update_data, the ranking loop and the accessors step by step, each
\* inside `with self.data_lock` where the code has it.
LockMaxUpdates == 4        \* batches counted by data_update_count here

\* The arguments of update_data here: each valid item alone, a list of two
\* valid items, a list of a valid item and one the validation rejects, and
\* a value that is neither a dict nor a list.
LockData ==
    {[kind |-> "dict", items |-> <<i>>] : i \in ValidItems}
    \cup {[kind |-> "list",
           items |-> <<[s |-> Str(AUSDT), r |-> Num(1)], [s |-> Str(BUSDT), r |-> Num(1)]>>],
          [kind |-> "list",
           items |-> <<[s |-> Str(BUSDT), r |-> Num(1)], [s |-> Str(AUSDT), r |-> Num(10)]>>],
          [kind |-> "other", items |-> <<>>]}

\* An acquisition that does not wait for the owner.
can_acquire_unlocked(thread) == TRUE

\* threading.RLock: free, or owned by the acquiring thread.
can_acquire(thread) == data_lock = "none" \/ data_lock = thread

\* A cleanup that pops three of the tables.
cleanup_tables_partial == <<"current_rates", "rate_history", "symbol_last_seen">>

\* Lines 355-359: the tables a cleanup pops a symbol from, in this order.
cleanup_tables ==
    <<"current_rates", "volatility_data", "rate_history", "champion_records",
      "symbol_last_seen">>

\* Lines 346-349: the inactive symbols, in the order of symbol_last_seen.
inactive_list ==
    LET Inactive(symbol) == symbol \in inactive_symbols(symbol_last_seen)
    IN  SelectSeq(Keys(symbol_last_seen), Inactive)

\* Lines 353-359: the pops of a cleanup, symbol by symbol, table by table.
pops_of(symbols) ==
    [k \in 1..(Len(symbols) * Len(cleanup_tables)) |->
        <<symbols[((k - 1) \div Len(cleanup_tables)) + 1],
          cleanup_tables[((k - 1) % Len(cleanup_tables)) + 1]>>]

\* update_data is called (line 83) and waits for the lock.
CallUpdateData(data) ==
    /\ ingest.pc = "idle"
    /\ data_update_count < LockMaxUpdates
    /\ ingest' = [IdleIngest EXCEPT !.pc = "waiting", !.data = data]
    /\ UNCHANGED <<now, current_rates, rate_history, volatility_data, top5_symbols,
                   champion_records, total_symbols, data_update_count,
                   last_update_time, symbol_last_seen, argsort_ties,
                   window_size, feed, loopVars, last_batch, caller,
                   last_round, data_lock, ranking_pc, reader_pc, age_pc, clientVars>>

\* Lines 86-91: the lock is taken and the items are laid out.
AcquireForUpdate ==
    /\ ingest.pc = "waiting"
    /\ can_acquire("ingest")
    /\ data_lock' = "ingest"
    /\ ingest' = [ingest EXCEPT !.pc = "items", !.items = items_to_process(ingest.data)]
    /\ UNCHANGED <<now, current_rates, rate_history, volatility_data, top5_symbols,
                   champion_records, total_symbols, data_update_count,
                   last_update_time, symbol_last_seen, argsort_ties,
                   window_size, feed, loopVars, last_batch, caller,
                   last_round, ranking_pc, reader_pc, age_pc, clientVars>>

\* Lines 94-96: one item of the batch.
ProcessItem ==
    /\ ingest.pc = "items"
    /\ ingest.items # <<>>
    /\ \E res \in {process_single_item(CoreState, Head(ingest.items))} :
           /\ current_rates' = res.st.current_rates
           /\ rate_history' = res.st.rate_history
           /\ volatility_data' = res.st.volatility_data
           /\ champion_records' = res.st.champion_records
           /\ symbol_last_seen' = res.st.symbol_last_seen
           /\ ingest' = [ingest EXCEPT
                            !.items = Tail(@),
                            !.processed_count = @ + (IF res.ok THEN 1 ELSE 0)]
           /\ caller' = caller_after(caller, champion_records,
                                     res.st.champion_records, res.st.champion_records)
    /\ UNCHANGED <<now, top5_symbols, total_symbols, data_update_count,
                   last_update_time, argsort_ties,
                   window_size, feed, loopVars, last_batch, last_round,
                   data_lock, ranking_pc, reader_pc, age_pc, clientVars>>

\* Lines 98-101 and the start of _cleanup_caches (lines 342-349): after the
\* last item the statistics are updated and, every CleanupEvery batches,
\* the inactive symbols are listed; otherwise the lock is released.
EndOfItems ==
    /\ ingest.pc = "items"
    /\ ingest.items = <<>>
    /\ IF ingest.processed_count > 0
       THEN /\ total_symbols' = Len(current_rates)
            /\ data_update_count' = data_update_count + 1
            /\ last_update_time' = now
            /\ IF (data_update_count + 1) % CleanupEvery = 0
               THEN /\ ingest' = [ingest EXCEPT
                                    !.pc = "cleanup",
                                    !.inactive_symbols = inactive_list,
                                    !.pops = pops_of(inactive_list)]
                    /\ UNCHANGED data_lock
               ELSE /\ ingest' = IdleIngest
                    /\ data_lock' = "none"
       ELSE /\ ingest' = IdleIngest
            /\ data_lock' = "none"
            /\ UNCHANGED <<total_symbols, data_update_count, last_update_time>>
    /\ UNCHANGED <<now, current_rates, rate_history, volatility_data, top5_symbols,
                   champion_records, symbol_last_seen, argsort_ties,
                   window_size, feed, loopVars, last_batch, caller,
                   last_round, ranking_pc, reader_pc, age_pc, clientVars>>

\* Lines 355-359: one pop of the cleanup.
CleanupPop ==
    /\ ingest.pc = "cleanup"
    /\ ingest.pops # <<>>
    /\ LET symbol == Head(ingest.pops)[1]
           table == Head(ingest.pops)[2]
       IN  /\ current_rates' =
                  IF table = "current_rates" THEN Pop(current_rates, symbol)
                  ELSE current_rates
           /\ volatility_data' =
                  IF table = "volatility_data" THEN Pop(volatility_data, symbol)
                  ELSE volatility_data
           /\ rate_history' =
                  IF table = "rate_history" THEN Pop(rate_history, symbol)
                  ELSE rate_history
           /\ champion_records' =
                  IF table = "champion_records" THEN Pop(champion_records, symbol)
                  ELSE champion_records
           /\ symbol_last_seen' =
                  IF table = "symbol_last_seen" THEN Pop(symbol_last_seen, symbol)
                  ELSE symbol_last_seen
    /\ ingest' = [ingest EXCEPT !.pops = Tail(@)]
    /\ caller' = caller_after(caller, champion_records, champion_records,
                              champion_records')
    /\ UNCHANGED <<now, top5_symbols, total_symbols, data_update_count,
                   last_update_time, argsort_ties,
                   window_size, feed, loopVars, last_batch, last_round,
                   data_lock, ranking_pc, reader_pc, age_pc, clientVars>>

\* The cleanup has returned: the `with` block of update_data ends.
ReleaseAfterCleanup ==
    /\ ingest.pc = "cleanup"
    /\ ingest.pops = <<>>
    /\ ingest' = IdleIngest
    /\ data_lock' = "none"
    /\ UNCHANGED <<now, current_rates, rate_history, volatility_data, top5_symbols,
                   champion_records, total_symbols, data_update_count,
                   last_update_time, symbol_last_seen, argsort_ties,
                   window_size, feed, loopVars, last_batch, caller,
                   last_round, ranking_pc, reader_pc, age_pc, clientVars>>

\* _ranking_loop, line 77: the ranking thread takes the lock.
AcquireForRanking ==
    /\ ranking_pc = "idle"
    /\ can_acquire("ranking")
    /\ data_lock' = "ranking"
    /\ ranking_pc' = "locked"
    /\ UNCHANGED <<now, current_rates, rate_history, volatility_data, top5_symbols,
                   champion_records, total_symbols, data_update_count,
                   last_update_time, symbol_last_seen, argsort_ties,
                   window_size, feed, loopVars, last_batch, caller,
                   last_round, ingest, reader_pc, age_pc, clientVars>>

\* _ranking_loop, line 78: the recomputation, and the end of the `with`.
RankingBody ==
    /\ ranking_pc = "locked"
    /\ top5_symbols' = update_top5_ranking
    /\ data_lock' = "none"
    /\ ranking_pc' = "idle"
    /\ UNCHANGED <<now, current_rates, rate_history, volatility_data,
                   champion_records, total_symbols, data_update_count,
                   last_update_time, symbol_last_seen, argsort_ties,
                   window_size, feed, loopVars, last_batch, caller,
                   last_round, ingest, reader_pc, age_pc, clientVars>>

\* get_top5_data, get_statistics, get_champion_summary or
\* get_symbol_analysis takes the lock (lines 369, 416, 452, 518).
AcquireForRead ==
    /\ reader_pc = "idle"
    /\ can_acquire("reader")
    /\ data_lock' = "reader"
    /\ reader_pc' = "locked"
    /\ UNCHANGED <<now, current_rates, rate_history, volatility_data, top5_symbols,
                   champion_records, total_symbols, data_update_count,
                   last_update_time, symbol_last_seen, argsort_ties,
                   window_size, feed, loopVars, last_batch, caller,
                   last_round, ingest, ranking_pc, age_pc, clientVars>>

\* The accessor has built its result and leaves the `with`.
ReturnFromRead ==
    /\ reader_pc = "locked"
    /\ data_lock' = "none"
    /\ reader_pc' = "idle"
    /\ UNCHANGED <<now, current_rates, rate_history, volatility_data, top5_symbols,
                   champion_records, total_symbols, data_update_count,
                   last_update_time, symbol_last_seen, argsort_ties,
                   window_size, feed, loopVars, last_batch, caller,
                   last_round, ingest, ranking_pc, age_pc, clientVars>>

\* get_last_update_age, line 445: the first read of last_update_time, with
\* no lock; on None the call returns at once.
AgeCheck ==
    /\ age_pc = "idle"
    /\ last_update_time # None
    /\ age_pc' = "checked"
    /\ UNCHANGED <<now, current_rates, rate_history, volatility_data, top5_symbols,
                   champion_records, total_symbols, data_update_count,
                   last_update_time, symbol_last_seen, argsort_ties,
                   window_size, feed, loopVars, last_batch, caller,
                   last_round, data_lock, ingest, ranking_pc, reader_pc, clientVars>>

\* get_last_update_age, line 447: the second read, and the return.
AgeReturn ==
    /\ age_pc = "checked"
    /\ age_pc' = "idle"
    /\ UNCHANGED <<now, current_rates, rate_history, volatility_data, top5_symbols,
                   champion_records, total_symbols, data_update_count,
                   last_update_time, symbol_last_seen, argsort_ties,
                   window_size, feed, loopVars, last_batch, caller,
                   last_round, data_lock, ingest, ranking_pc, reader_pc, clientVars>>

LockNext ==
    \/ \E data \in LockData : CallUpdateData(data)
    \/ AcquireForUpdate
    \/ ProcessItem
    \/ EndOfItems
    \/ CleanupPop
    \/ ReleaseAfterCleanup
    \/ AcquireForRanking
    \/ RankingBody
    \/ AcquireForRead
    \/ ReturnFromRead
    \/ AgeCheck
    \/ AgeReturn
    \/ Tick

LockSpec == IngestInit /\ [][LockNext]_vars

LockTypeOK ==
    /\ data_lock \in {"none", "ingest", "ranking", "reader"}
    /\ ingest.pc \in {"idle", "waiting", "items", "cleanup"}
    /\ ranking_pc \in {"idle", "locked"}
    /\ reader_pc \in {"idle", "locked"}
    /\ age_pc \in {"idle", "checked"}

\* ------------------------------------------------------------------ C22
\* The per-symbol tables hold the same symbols: the series, the current
\* rates and the last-seen times have one key set, and the cached scores
\* and the champions are kept for symbols of that set only.
TablesAgree ==
    /\ KeySet(rate_history) = KeySet(current_rates)
    /\ KeySet(symbol_last_seen) = KeySet(current_rates)
    /\ KeySet(volatility_data) \subseteq KeySet(current_rates)
    /\ KeySet(champion_records) \subseteq KeySet(current_rates)

\* The cleanup of update_data has made its last pop.
CleanupOver == ingest.pc = "cleanup" /\ ingest.pops = <<>>

\* The ranking loop or an accessor is inside its `with self.data_lock`.
Observing == ranking_pc = "locked" \/ reader_pc = "locked"

\* C22: when the inactivity cleanup is over, every symbol it removed has no
\* entry left in the series, current-rate, champion, cached-score and
\* last-seen tables; and whenever the ranking loop or an accessor is looking
\* at the tables, no symbol is in some of them and missing from the others.
C22_CleanupRemovesTogether ==
    /\ CleanupOver =>
          \A k \in 1..Len(ingest.inactive_symbols) :
              ingest.inactive_symbols[k] \notin PerSymbolKeys
    /\ Observing => TablesAgree

\* The cleanup has removed a symbol and is about to release the lock, while
\* the ranking loop is due; the symbol removed is still in the ranking, so
\* it had a score and a champion.
C22_Witness ==
    /\ CleanupOver
    /\ ingest.inactive_symbols # <<>>
    /\ ~Has(current_rates, ingest.inactive_symbols[1])
    /\ \E k \in 1..Len(top5_symbols) : top5_symbols[k] = ingest.inactive_symbols[1]
    /\ ranking_pc = "idle"

\* ------------------------------------------------------------------ C23
\* update_data is inside its `with self.data_lock` block.
Ingesting == ingest.pc \in {"items", "cleanup"}

\* update_data is between two items of one batch.
BetweenItems ==
    /\ ingest.pc = "items"
    /\ ingest.items # <<>>
    /\ Len(ingest.items) < Len(items_to_process(ingest.data))

\* The threads inside a block that takes the lock.
LockedThreads ==
    {t \in {"ingest", "ranking", "reader"} :
        \/ t = "ingest" /\ Ingesting
        \/ t = "ranking" /\ ranking_pc = "locked"
        \/ t = "reader" /\ reader_pc = "locked"}

\* The threads inside update_data, a ranking round or any accessor,
\* get_last_update_age included.
RunningThreads ==
    LockedThreads \cup (IF age_pc = "checked" THEN {"age"} ELSE {})

\* C23 as stated: ingest, ranking recomputation and every accessor are
\* mutually exclusive, so that no accessor runs between two items of a
\* batch.
C23_EveryAccessorExclusive == Cardinality(RunningThreads) <= 1

\* C23: ingest, the ranking recomputation and the accessors that read the
\* series, champion, ranking or last-seen data are mutually exclusive: each
\* runs only as the owner of the one lock, none of the others runs between
\* two items of a batch, and every write of that data is made by the owner
\* of the lock. get_last_update_age is outside of this: it takes no lock.
C23_LockedExclusive ==
    /\ [](LockedThreads \subseteq {data_lock})
    /\ [](BetweenItems => ranking_pc = "idle" /\ reader_pc = "idle")
    /\ [][(<<current_rates, rate_history, volatility_data, champion_records,
              symbol_last_seen>>' #
            <<current_rates, rate_history, volatility_data, champion_records,
              symbol_last_seen>>) => data_lock = "ingest"]_vars
    /\ [][top5_symbols' # top5_symbols => data_lock = "ranking"]_vars

\* update_data is between the two items of a batch, of which the first was
\* processed, and get_last_update_age is running.
C23_Witness ==
    /\ BetweenItems
    /\ ingest.processed_count = 1
    /\ data_lock = "ingest"
    /\ age_pc = "checked"

\* ------------------------------------------------ calls of the accessors
RECURSIVE SumLen(_)
SumLen(d) == IF d = <<>> THEN 0 ELSE Len(Head(d)[2]) + SumLen(Tail(d))

\* get_statistics (lines 414-441).
get_statistics ==
    LET total_history_points == SumLen(rate_history)
        AtLeastOne(n) == IF n > 1 THEN n ELSE 1
    IN  [total_symbols |-> Len(current_rates),
         data_updates |-> data_update_count,
         last_update |-> last_update_time,
         top5_count |-> Len(top5_symbols),
         has_data |-> Len(current_rates) > 0,
         volatility_data_count |-> Len(volatility_data),
         history_total_points |-> total_history_points,
         champion_records_count |-> Len(champion_records),
         pandas_series_count |-> Len(rate_history),
         avg_series_length |->
             Frac(total_history_points, AtLeastOne(Len(rate_history))),
         active_symbols |-> Len(symbol_last_seen),
         champion_coverage |->
             Frac(Len(champion_records), AtLeastOne(Len(current_rates)))]

\* A call of an accessor that hands out new objects only.
Returns(call, value) ==
    /\ caller' = [call |-> call, value |-> value, object |-> <<>>, aliased |-> FALSE]
    /\ UNCHANGED <<now, current_rates, rate_history, volatility_data, top5_symbols,
                   champion_records, total_symbols, data_update_count,
                   last_update_time, symbol_last_seen, argsort_ties,
                   window_size, feed, loopVars, last_batch,
                   last_round, lockVars, clientVars>>

GetTop5Data == Returns("get_top5_data", get_top5_data)

GetStatistics == Returns("get_statistics", get_statistics)

GetChampionSummary == Returns("get_champion_summary", get_champion_summary)

\* A call of get_symbol_analysis (lines 515-550): the value under
\* 'champion_info' is what the lookup of line 543 yields.
GetSymbolAnalysis(symbol) ==
    /\ \E analysis \in {get_symbol_analysis(symbol)} :
           /\ caller' =
                  [call |-> "get_symbol_analysis",
                   value |-> analysis,
                   object |-> IF analysis = NoAnalysis THEN <<>>
                              ELSE analysis.champion_info,
                   aliased |-> analysis # NoAnalysis /\ Has(champion_records, symbol)]
           /\ champion_records' =
                  IF analysis = NoAnalysis THEN champion_records
                  ELSE champion_get(champion_records, symbol).table
    /\ UNCHANGED <<now, current_rates, rate_history, volatility_data, top5_symbols,
                   total_symbols, data_update_count, last_update_time,
                   symbol_last_seen, argsort_ties,
                   window_size, feed, loopVars, last_batch, last_round, lockVars,
                   clientVars>>

AccessNext ==
    \/ \E data \in LockData : UpdateData(data)
    \/ RankingRound
    \/ Tick
    \/ GetTop5Data
    \/ GetStatistics
    \/ GetChampionSummary
    \/ \E symbol \in {AUSDT, BUSDT} : GetSymbolAnalysis(symbol)

AccessSpec == IngestInit /\ [][AccessNext]_vars

AccessTypeOK ==
    caller.call \in {"none", "get_top5_data", "get_statistics",
                     "get_champion_summary", "get_symbol_analysis"}

\* ------------------------------------------------------------------ C24
\* The caller holds a detail of a symbol from get_symbol_analysis.
HoldsDetail == caller.call = "get_symbol_analysis" /\ caller.value # NoAnalysis

\* C24: a value an accessor returned does not change in the hands of the
\* caller: the dict held under 'champion_info' still reads as it did when
\* get_symbol_analysis returned it, whatever was ingested since.
C24_ReturnsCopies == HoldsDetail => caller.object = caller.value.champion_info

\* ------------------------------------------------------------------ C25
\* The step is the return of an accessor: the caller has a value of another
\* call, or another value of the same call.
AccessorReturned ==
    \/ caller'.call # caller.call
    \/ caller'.value # caller.value

\* C25: a call of get_top5_data, get_statistics, get_champion_summary or
\* get_symbol_analysis, in any state, leaves the series, the current rates,
\* the champion records, the cached scores, the last-seen table, the
\* ranking and the counters as they were.
C25_AccessorsSideEffectFree ==
    [][AccessorReturned =>
          UNCHANGED <<rate_history, current_rates, champion_records,
                      volatility_data, symbol_last_seen, top5_symbols,
                      total_symbols, data_update_count, last_update_time>>]_vars

\* get_symbol_analysis has returned the detail of a symbol that has a
\* series of two points and no champion.
C25_Witness ==
    /\ HoldsDetail
    /\ ~caller.aliased
    /\ champion_records = <<>>
    /\ caller.value.data_points = 2

\* ------------------------------------------------------------------ C26
\* C26: get_top5_data returns exactly one entry for every symbol of the
\* published ranking, in the order of the ranking.
C26_OneEntryPerRanked ==
    /\ Len(get_top5_data) = Len(top5_symbols)
    /\ \A i \in 1..Len(top5_symbols) : get_top5_data[i].symbol = top5_symbols[i]

\* ------------------------------------------------------------------ C27
\* The item passes _validate_item and _should_process_symbol (lines 109-116).
Acceptable(item) ==
    /\ validate_item(item)
    /\ should_process_symbol(extract_rate(item).symbol.chars)

\* Calls of update_data as the clock advances, each with its outcome on record.
BatchNext ==
    \/ \E data \in LockData : ObservedUpdate(data)
    \/ Tick

BatchSpec == IngestInit /\ [][BatchNext]_vars

\* C27: whatever update_data is given, in any state: the items of the
\* argument that are not acceptable leave no trace, each acceptable item of
\* the same batch is processed, and the tables end as the acceptable items
\* alone would leave them; an argument with no acceptable item (a value that
\* is neither a dict nor a list among them) leaves the tables as they were.
\* update_data has no outcome but these: the model has no raise.
C27_InvalidDiscarded ==
    \A data \in DataValues :
        LET items == items_to_process(data)
            valid == SelectSeq(items, Acceptable)
            res == process_items(CoreState, items)
        IN  /\ res.processed_count = Len(valid)
            /\ res.st = process_items(CoreState, valid).st
            /\ (valid = <<>>) => (res.st = CoreState)

\* update_data was given a list of an item it rejects and an item it
\* processes, in a state that already had a series.
C27_Witness ==
    /\ last_batch = [processed |-> 1, rejected |-> 1]
    /\ data_update_count = 2
    /\ \E symbol \in KeySet(rate_history) : Len(Get(rate_history, symbol)) = 2

\* ------------------------------------------------------------------ C28
\* The end-to-end scenario: a core with the configured window is fed
\* Baseline observations of one symbol with rates near each other and then
\* one observation far from them, all under one field pair.
MOVING_AVERAGE_WINDOW == 512
Baseline == 8              \* observations before the step
BaseRates == {0, 1}
StepRates == {5, 9}
BTCUSDT == <<"B", "T", "C", "U", "S", "D", "T">>

\* The message one observation arrives as: the rate under "r", the symbol
\* under "s" or under "symbol".
Observation(form, raw) ==
    IF form = "s" THEN [s |-> Str(BTCUSDT), r |-> Num(raw)]
    ELSE [symbol |-> Str(BTCUSDT), r |-> Num(raw)]

\* update_data (lines 83-104) is given the next observation.
E2EObserve(form, raw) ==
    /\ Len(feed.rates) <= Baseline
    /\ feed.form \in {"none", form}
    /\ raw \in (IF Len(feed.rates) < Baseline THEN BaseRates ELSE StepRates)
    /\ IngestBody([kind |-> "dict", items |-> <<Observation(form, raw)>>], FALSE)
    /\ feed' = [form |-> form, rates |-> Append(feed.rates, raw)]

E2ENext ==
    \E form \in {"s", "symbol"}, raw \in BaseRates \cup StepRates : E2EObserve(form, raw)

E2EInit ==
    /\ ClientInit
    /\ handlerKind = "sync"
    /\ BusinessCoreWith(MOVING_AVERAGE_WINDOW)
    /\ argsort_ties = "stable"

E2ESpec == E2EInit /\ [][E2ENext]_vars

\* z is (current - S/n) over the sample standard deviation of the n points
\* of historical with sum S, in integers; z is the same for the raw rates
\* and for the rates as _extract_rate scales them (line 155).
SampleZ(historical, current, z) ==
    LET n == Len(historical)
        dev == n * current - SumSeq(historical)
    IN  /\ z.sign = Sign(dev)
        /\ z.sq.num * n * Spread(historical) = z.sq.den * dev * dev * (n - 1)

\* The observation of the step has been fed.
StepFed == Len(feed.rates) = Baseline + 1

\* BTCUSDT has a champion whose z is the one of the last rate fed against
\* the rates fed before it.
ChampionOfStep ==
    /\ Has(champion_records, BTCUSDT)
    /\ SampleZ(SubSeq(feed.rates, 1, Baseline), feed.rates[Baseline + 1],
               Get(champion_records, BTCUSDT).z_score)

\* C28 as stated: after the nine observations {symbol: "BTCUSDT", r: rate}
\* BTCUSDT has a champion with z = (x9 - mean(x1..x8)) / s(x1..x8).
C28_SymbolFormChampion == (StepFed /\ feed.form = "symbol") => ChampionOfStep

\* C28: after nine observations {s: "BTCUSDT", r: rate}, the first eight
\* not all equal and the ninth a step away from them, BTCUSDT has a
\* champion with z = (x9 - mean(x1..x8)) / s(x1..x8), s the sample standard
\* deviation.
C28_StepChampion ==
    (StepFed /\ feed.form = "s" /\ Spread(SubSeq(feed.rates, 1, Baseline)) # 0)
        => ChampionOfStep

\* The nine observations were fed under "s", the first eight being 0 but
\* for one 1, the ninth 9: the champion is the one of the ninth.
C28_Witness ==
    /\ StepFed
    /\ feed.form = "s"
    /\ SumSeq(SubSeq(feed.rates, 1, Baseline)) = 1
    /\ feed.rates[Baseline + 1] = 9
    /\ Has(champion_records, BTCUSDT)
    /\ Get(champion_records, BTCUSDT).champion_new_rate = 9 * PERCENT
    /\ Len(Get(rate_history, BTCUSDT)) = Baseline + 1

\* ------------------------------------------------------------------ C29
\* The frames received so far that json.loads decodes.
Decoded == {i \in 1..Len(received) : received[i]}

\* C29: the message counter counts the received frames that decode, once
\* each, and no frame that fails to decode.
C29_CountsDecoded == message_count = Cardinality(Decoded)

\* ------------------------------------------------------------------ C30
\* The step takes the loop task t into the body of the `async with` of
\* line 130: it was connecting and now holds a socket.
EntersConnected(t) ==
    /\ tasks[t].pc = "connecting"
    /\ tasks'[t].ws # None

\* C30: a step into the connected state sets the count of consecutive
\* failures of the loop to zero, starts the age of the connection anew and
\* adds exactly one to the count of connections; while the loop runs,
\* nothing else lowers the count of failures, and whatever raises it raises
\* it by one: after k failed attempts in a row it is k.
C30_ConnectedResets ==
    [][/\ (reconnect_count' # reconnect_count)
              => (\E t \in TaskIds : EntersConnected(t))
       /\ \A t \in TaskIds :
          /\ EntersConnected(t) =>
                /\ tasks'[t].reconnect_attempt = 0
                /\ reconnect_count' = reconnect_count + 1
                /\ ~aged'
          /\ (/\ tasks'[t].pc \in LivePcs
              /\ tasks'[t].reconnect_attempt < tasks[t].reconnect_attempt)
                => EntersConnected(t)
          /\ (tasks'[t].reconnect_attempt > tasks[t].reconnect_attempt)
                => (/\ FailedAttempt(t)
                    /\ tasks[t].pc = "connecting"
                    /\ tasks'[t].pc = "sleeping"
                    /\ reconnect_count' = reconnect_count)]_vars

\* After two failed attempts in a row the third attempt has connected: the
\* count of failures is back at zero and this is the first connection.
C30_Witness ==
    \E t \in TaskIds :
        /\ tasks[t].pc = "recv"
        /\ tasks[t].reconnect_attempt = 0
        /\ reconnect_count = 1
        /\ current_host_index = 2
        /\ is_connected

\* ------------------------------------------------------------------ C31
\* The loop task t comes back to the head of the inner loop (line 161) and
\* tests _should_reconnect (line 164): after a receive that timed out, a
\* frame that did not decode, or a handler invocation that ended.
AgeCheckStep(t) ==
    \/ RecvTimeout(t)
    \/ RecvMessage(t, FALSE)
    \/ \E outcome \in {"returned", "raised"} : HandlerAsyncDone(t, outcome)
    \/ HandlerExecResume(t)

\* The connection of task t was ended because of its age, and no backoff
\* has been slept since.
EndedByAge(t) == tasks[t].exitKind = "aged"

\* C31: while running, the check of the inner loop that finds the live
\* connection older than the maximum ends that connection; host cursor and
\* count of consecutive failures stay as they are; the loop comes to its
\* next connection attempt without a backoff sleep in between, with the
\* cursor where it was and the count of failures at zero; and that attempt
\* is eventually made unless a stop is requested.
C31_ProactiveReconnect ==
    /\ [][\A t \in TaskIds :
             (AgeCheckStep(t) /\ is_running /\ is_connected /\ aged) =>
                /\ tasks'[t].pc = "aexit"
                /\ EndedByAge(t)'
                /\ ~is_connected'
                /\ websocket' = None
                /\ current_host_index' = current_host_index
                /\ tasks'[t].reconnect_attempt = tasks[t].reconnect_attempt]_vars
    /\ [](\A t \in TaskIds :
             (tasks[t].pc \in {"aexit", "connecting"} /\ EndedByAge(t)) =>
                /\ current_host_index = tasks[t].hostAtExit
                /\ tasks[t].reconnect_attempt = 0
                /\ tasks[t].wait_time = 0)
    /\ \A t \in TaskIds :
          (is_running /\ tasks[t].pc = "aexit" /\ EndedByAge(t)) ~>
              (tasks[t].pc = "connecting" \/ ~is_running)

\* After a failed attempt on host A and a connection to host B that grew too
\* old, the loop, still running, is at its next attempt, again on host B.
C31_Witness ==
    \E t \in TaskIds :
        /\ is_running
        /\ tasks[t].pc = "connecting"
        /\ EndedByAge(t)
        /\ reconnect_count = 1
        /\ current_host_index = 1

\* ------------------------------------------------------------------ C32
\* The champion record of symbol is older than the TTL.
ChampionExpired(symbol) ==
    Has(champion_records, symbol) /\ ~WithinTTL(champion_records, symbol)

\* C32: a ranking round that derives a positive live score for a symbol
\* whose champion record has expired leaves a champion record of the symbol
\* that is within its TTL, and a round that derives a live score that is not
\* positive leaves the champion table as it is for that symbol.
C32_RecomputationEstablishes ==
    [][RankingStep =>
          \A symbol \in KeySet(current_rates) :
              ChampionExpired(symbol) =>
                  IF Positive(calculate_current_zscore(symbol))
                  THEN /\ Has(champion_records', symbol)
                       /\ now' - Get(champion_records', symbol).champion_timestamp
                              <= champion_ttl
                  ELSE champion_records' = champion_records]_vars

\* ------------------------------------------------------------------ C33
\* C33: the current rate of every entry get_top5_data returns is the rate
\* of the latest observation stored for its symbol (line 122).
C33_ReportsCurrentRate ==
    \A i \in 1..Len(get_top5_data) :
        Has(current_rates, get_top5_data[i].symbol) =>
            get_top5_data[i].current_rate
                = Get(current_rates, get_top5_data[i].symbol)

\* ------------------------------------------------------------------ C34
\* The step is the loop of update_data processing its next item.
ItemStep ==
    /\ ingest.pc = "items"
    /\ ingest.items # <<>>
    /\ ingest'.items = Tail(ingest.items)

\* The item is accepted and its rate is no change for its symbol: the first
\* rate of the symbol, or the rate it already has (lines 119, 141-142).
NoRateChange(item) ==
    /\ Acceptable(item)
    /\ Has(current_rates, extract_rate(item).symbol.chars) =>
           Get(current_rates, extract_rate(item).symbol.chars) = extract_rate(item).rate

\* C34: an accepted item that is the first of its symbol or repeats the
\* symbol's rate is stored as current rate, appended to the window (which
\* keeps its latest window_size points) and refreshes last-seen, and leaves
\* the champion table and the cached scores as they are.
C34_DuplicateTickNoScore ==
    [][(ItemStep /\ NoRateChange(Head(ingest.items))) =>
          \E symbol \in {extract_rate(Head(ingest.items)).symbol.chars},
             new_rate \in {extract_rate(Head(ingest.items)).rate} :
              /\ Get(current_rates', symbol) = new_rate
              /\ Get(rate_history', symbol)
                     = keep_window(Append(HistoryOf(rate_history, symbol), new_rate))
              /\ Get(symbol_last_seen', symbol) = now
              /\ champion_records' = champion_records
              /\ volatility_data' = volatility_data
              /\ ingest'.processed_count = ingest.processed_count + 1]_vars

\* A tick that repeats the rate of AUSDT has arrived after the champion of
\* AUSDT was created: the window has moved on and last-seen is later than
\* the champion, whose age is still the one of its creation.
C34_Witness ==
    /\ Has(champion_records, AUSDT)
    /\ Get(rate_history, AUSDT) = <<100, 0, 0>>
    /\ Get(champion_records, AUSDT).champion_new_rate = 0
    /\ Get(champion_records, AUSDT).champion_age_hours = 0
    /\ Get(symbol_last_seen, AUSDT) > Get(champion_records, AUSDT).champion_timestamp
    /\ Get(volatility_data, AUSDT).timestamp
           = Get(champion_records, AUSDT).champion_timestamp

\* ------------------------------------------------------------------ C35
\* The step is a pop of the cleanup (lines 355-359).
CleanupStep ==
    /\ ingest.pc = "cleanup"
    /\ ingest.pops # <<>>
    /\ ingest'.pops = Tail(ingest.pops)

\* The last accepted observation of symbol is not older than the threshold.
Active(symbol) ==
    /\ Has(symbol_last_seen, symbol)
    /\ now - Get(symbol_last_seen, symbol) <= inactive_threshold

\* The symbol has the same entry, or none, in table d and in table e.
SameEntry(d, e, symbol) ==
    /\ Has(d, symbol) = Has(e, symbol)
    /\ Has(d, symbol) => Get(d, symbol) = Get(e, symbol)

\* C35: no pop of the inactivity cleanup touches a symbol whose last
\* accepted observation is not older than the threshold: its series,
\* current rate, champion record, cached score and last-seen time are the
\* same after the pop; and when the cleanup is over such a symbol is not
\* among the symbols it removed.
C35_CleanupKeepsActive ==
    /\ [][CleanupStep =>
             \A symbol \in KeySet(symbol_last_seen) :
                 Active(symbol) =>
                     /\ SameEntry(rate_history, rate_history', symbol)
                     /\ SameEntry(current_rates, current_rates', symbol)
                     /\ SameEntry(champion_records, champion_records', symbol)
                     /\ SameEntry(volatility_data, volatility_data', symbol)
                     /\ SameEntry(symbol_last_seen, symbol_last_seen', symbol)]_vars
    /\ [](ingest.pc = "cleanup" =>
             \A k \in 1..Len(ingest.inactive_symbols) :
                 ~Active(ingest.inactive_symbols[k]))

\* A cleanup has removed AUSDT, last seen too long ago, and kept BUSDT,
\* whose idle time is just the threshold, with its champion and its score.
C35_Witness ==
    /\ CleanupOver
    /\ ingest.inactive_symbols = <<AUSDT>>
    /\ KeySet(current_rates) = {BUSDT}
    /\ Has(champion_records, BUSDT)
    /\ Has(volatility_data, BUSDT)
    /\ now - Get(symbol_last_seen, BUSDT) = inactive_threshold

\* ------------------------------------- the ranking thread and its control
ThreadMaxUpdates == 3      \* batches counted by data_update_count here

\* The arguments of update_data here.
ThreadData ==
    {[kind |-> "dict", items |-> <<[s |-> Str(AUSDT), r |-> Num(0)]>>],
     [kind |-> "dict", items |-> <<[s |-> Str(AUSDT), r |-> Num(1)]>>],
     [kind |-> "dict", items |-> <<[s |-> Str(BUSDT), r |-> Num(0)]>>]}

\* threading.Thread.is_alive(): started and not yet ended.
is_alive(t) == loops[t] \in {"check", "acquire", "locked", "wait"}

\* A loop that goes round whatever the stop flag says.
ranking_loop_ignores_stop(flag) == "acquire"

\* The while test of _ranking_loop (line 75) with the stop flag as it is.
ranking_loop(flag) == IF flag THEN "done" ELSE "acquire"

\* The loop thread t tests the stop flag (line 75).
LoopCheck(t) ==
    /\ loops[t] = "check"
    /\ loops' = [loops EXCEPT ![t] = ranking_loop(stop_event)]
    /\ UNCHANGED <<now, current_rates, rate_history, volatility_data, top5_symbols,
                   champion_records, total_symbols, data_update_count,
                   last_update_time, symbol_last_seen, argsort_ties,
                   window_size, feed, last_batch, last_round, lockVars, caller,
                   ranking_thread, stop_event, controller, clientVars>>

\* The loop thread t gets the lock (line 77).
LoopAcquire(t) ==
    /\ loops[t] = "acquire"
    /\ can_acquire("ranking")
    /\ data_lock' = "ranking"
    /\ loops' = [loops EXCEPT ![t] = "locked"]
    /\ UNCHANGED <<now, current_rates, rate_history, volatility_data, top5_symbols,
                   champion_records, total_symbols, data_update_count,
                   last_update_time, symbol_last_seen, argsort_ties,
                   window_size, feed, last_batch, last_round, caller,
                   ingest, ranking_pc, reader_pc, age_pc,
                   ranking_thread, stop_event, controller, clientVars>>

\* The recomputation of the loop thread t (lines 76-81): it returns, or it
\* raises before the assignment of the ranking and the exception is logged
\* (line 80); the lock is released and the thread waits on the stop flag.
LoopRound(t, raised) ==
    /\ loops[t] = "locked"
    /\ top5_symbols' = IF raised THEN top5_symbols ELSE update_top5_ranking
    /\ data_lock' = "none"
    /\ loops' = [loops EXCEPT ![t] = "wait"]
    /\ last_round' = "none"
    /\ UNCHANGED <<now, current_rates, rate_history, volatility_data,
                   champion_records, total_symbols, data_update_count,
                   last_update_time, symbol_last_seen, argsort_ties,
                   window_size, feed, last_batch, caller,
                   ingest, ranking_pc, reader_pc, age_pc,
                   ranking_thread, stop_event, controller, clientVars>>

\* stop_event.wait(interval) of line 81 returns: the interval has passed
\* or the flag was set.
LoopWake(t) ==
    /\ loops[t] = "wait"
    /\ loops' = [loops EXCEPT ![t] = "check"]
    /\ UNCHANGED <<now, current_rates, rate_history, volatility_data, top5_symbols,
                   champion_records, total_symbols, data_update_count,
                   last_update_time, symbol_last_seen, argsort_ties,
                   window_size, feed, last_batch, last_round, lockVars, caller,
                   ranking_thread, stop_event, controller, clientVars>>

\* A fresh thread id for the next Thread object.
NewThread == Cardinality({t \in ThreadIds : loops[t] # "none"}) + 1

\* A start() that makes a thread at every call.
start_unconditionally(thread) == TRUE

\* Line 59: start() makes a thread.
start_creates(thread) == thread = None

\* BusinessCore.start() (lines 57-63).
BusinessCoreStart ==
    /\ controller.pc = "idle"
    /\ IF start_creates(ranking_thread)
       THEN /\ NewThread \in ThreadIds
            /\ stop_event' = FALSE
            /\ ranking_thread' = NewThread
            /\ loops' = [loops EXCEPT ![NewThread] = "check"]
       ELSE UNCHANGED <<stop_event, ranking_thread, loops>>
    /\ controller' = [controller EXCEPT !.last = "start"]
    /\ UNCHANGED <<now, current_rates, rate_history, volatility_data, top5_symbols,
                   champion_records, total_symbols, data_update_count,
                   last_update_time, symbol_last_seen, argsort_ties,
                   window_size, feed, last_batch, last_round, lockVars, caller,
                   clientVars>>

\* BusinessCore.stop() (lines 65-71) up to the join: the flag is set and a
\* live thread is joined; with no live thread stop() returns.
BusinessCoreStop ==
    /\ controller.pc = "idle"
    /\ stop_event' = TRUE
    /\ controller' =
          [controller EXCEPT
              !.pc = IF ranking_thread # None /\ is_alive(ranking_thread)
                     THEN "joining" ELSE "idle",
              !.last = "stop"]
    /\ UNCHANGED <<now, current_rates, rate_history, volatility_data, top5_symbols,
                   champion_records, total_symbols, data_update_count,
                   last_update_time, symbol_last_seen, argsort_ties,
                   window_size, feed, last_batch, last_round, lockVars, caller,
                   ranking_thread, loops, clientVars>>

\* ranking_thread.join() of line 70 returns: the thread has ended.
JoinReturns ==
    /\ controller.pc = "joining"
    /\ ~is_alive(ranking_thread)
    /\ controller' = [controller EXCEPT !.pc = "idle"]
    /\ UNCHANGED <<now, current_rates, rate_history, volatility_data, top5_symbols,
                   champion_records, total_symbols, data_update_count,
                   last_update_time, symbol_last_seen, argsort_ties,
                   window_size, feed, last_batch, last_round, lockVars, caller,
                   ranking_thread, stop_event, loops, clientVars>>

\* The controlling thread enters a `with core.data_lock` block of its own
\* (the lock of line 41 is a public attribute).
ControllerAcquire ==
    /\ controller.pc = "idle"
    /\ ~controller.holds
    /\ can_acquire("controller")
    /\ data_lock' = "controller"
    /\ controller' = [controller EXCEPT !.holds = TRUE]
    /\ UNCHANGED <<now, current_rates, rate_history, volatility_data, top5_symbols,
                   champion_records, total_symbols, data_update_count,
                   last_update_time, symbol_last_seen, argsort_ties,
                   window_size, feed, last_batch, last_round, caller,
                   ingest, ranking_pc, reader_pc, age_pc,
                   ranking_thread, stop_event, loops, clientVars>>

\* The controlling thread leaves that block.
ControllerRelease ==
    /\ controller.pc = "idle"
    /\ controller.holds
    /\ data_lock' = "none"
    /\ controller' = [controller EXCEPT !.holds = FALSE]
    /\ UNCHANGED <<now, current_rates, rate_history, volatility_data, top5_symbols,
                   champion_records, total_symbols, data_update_count,
                   last_update_time, symbol_last_seen, argsort_ties,
                   window_size, feed, last_batch, last_round, caller,
                   ingest, ranking_pc, reader_pc, age_pc,
                   ranking_thread, stop_event, loops, clientVars>>

LoopStep(t) ==
    \/ LoopCheck(t)
    \/ LoopAcquire(t)
    \/ \E raised \in BOOLEAN : LoopRound(t, raised)
    \/ LoopWake(t)

UpdateStep ==
    \/ AcquireForUpdate
    \/ ProcessItem
    \/ EndOfItems
    \/ CleanupPop
    \/ ReleaseAfterCleanup

ThreadNext ==
    \/ \E t \in ThreadIds : LoopStep(t)
    \/ BusinessCoreStart
    \/ BusinessCoreStop
    \/ JoinReturns
    \/ ControllerAcquire
    \/ ControllerRelease
    \/ \E data \in ThreadData :
          CallUpdateData(data) /\ data_update_count < ThreadMaxUpdates
    \/ UpdateStep
    \/ Tick

\* The loop of update_data has an item to process (lines 94-96).
ItemPending == ingest.pc = "items" /\ ingest.items # <<>>

\* The step processes the next item of update_data.
ItemProcessed == ItemPending /\ ingest'.items = Tail(ingest.items)

\* The scheduling of the threads: a thread that can run its next step runs
\* it; the interval of the wait is finite; join returns once the thread has
\* ended.  A recomputation is enabled exactly while its thread is inside
\* the lock and ends by leaving it, and an item is processed exactly while
\* one is pending, so weak fairness of these two steps is stated on their
\* enabling conditions.
ThreadFairness ==
    /\ \A t \in ThreadIds :
          /\ WF_vars(LoopCheck(t))
          /\ WF_vars(LoopAcquire(t))
          /\ []<>(loops[t] # "locked")
          /\ WF_vars(LoopWake(t))
    /\ WF_vars(AcquireForUpdate \/ EndOfItems \/ CleanupPop \/ ReleaseAfterCleanup)
    /\ ([]<>(~ItemPending) \/ []<><<ItemProcessed>>_vars)
    /\ WF_vars(JoinReturns)

ThreadSpec == IngestInit /\ [][ThreadNext]_vars /\ ThreadFairness

ThreadTypeOK ==
    /\ ranking_thread \in {None} \cup ThreadIds
    /\ stop_event \in BOOLEAN
    /\ \A t \in ThreadIds : loops[t] \in LoopPcs
    /\ controller.pc \in {"idle", "joining"}
    /\ data_lock \in {"none", "ingest", "ranking", "controller"}

\* ------------------------------------------------------------------ C36
\* stop() has returned and no other call was made since.
Stopped == controller.pc = "idle" /\ controller.last = "stop"

\* C36: the ranking loop ends only at its own test of the stop flag, with
\* the flag set: an exception inside a recomputation does not end it; with
\* the flag set the loop begins no new iteration, so the recomputation of
\* the iteration it is in is its last; the flag, once set, stays set while
\* the thread exists; when stop() has returned no ranking thread is alive;
\* and a stop() whose caller does not hold the data lock returns.
C36_StopIsCooperative ==
    /\ [][\A t \in ThreadIds :
             /\ (loops'[t] = "done" /\ loops[t] # "done")
                    => (stop_event /\ loops[t] = "check")
             /\ (loops'[t] = "acquire" /\ loops[t] # "acquire")
                    => (~stop_event /\ loops[t] = "check")
             /\ (loops'[t] = "locked" /\ loops[t] # "locked")
                    => loops[t] = "acquire"
             /\ (loops[t] = "locked" /\ loops'[t] # "locked")
                    => loops'[t] = "wait"]_vars
    /\ [][(stop_event /\ ~stop_event') => ranking_thread = None]_vars
    /\ [](Stopped => \A t \in ThreadIds : ~is_alive(t))
    /\ (controller.pc = "joining" /\ ~controller.holds) ~> Stopped

\* stop() has set the flag while the loop was inside a recomputation and is
\* waiting in join; the ranking already holds a symbol.
C36_Witness ==
    /\ controller.pc = "joining"
    /\ ~controller.holds
    /\ stop_event
    /\ loops[ranking_thread] = "locked"
    /\ top5_symbols # <<>>

\* ------------------------------------------------------------------ C37
\* start() has returned and no other call was made since.
Started == controller.pc = "idle" /\ controller.last = "start"

\* The threads start() has created so far.
Created == {t \in ThreadIds : loops[t] # "none"}

\* C37: start() creates at most one ranking thread, and whenever start()
\* was the last call made, also after a stop(), the ranking loop runs.
C37_StartRunsLoop ==
    /\ Cardinality(Created) <= 1
    /\ Started => \E t \in ThreadIds : is_alive(t)

\* ------------------------------------------------------------------ C38
\* The handler invocations that are executing.
InFlight == {id \in MsgIds : HandlerExecuting(id)}

\* C38: at most one handler invocation executes at any time, and the
\* invocations were started in the order in which their frames were received.
C38_OneHandlerInFlight ==
    /\ Cardinality(InFlight) <= 1
    /\ \A i, j \in 1..Len(delivered) : i < j => delivered[i] < delivered[j]

\* ------------------------------------------------------------------ C39
\* update_data is in the middle of its inactivity cleanup: some pop of
\* lines 355-359 is still to be made.
MidCleanup == ingest.pc = "cleanup" /\ ingest.pops # <<>>

\* The tables written together hold the same symbols: lines 122-138 write
\* current_rates, rate_history and symbol_last_seen, lines 234-260 write
\* champion_records and volatility_data, for a symbol that has a series.
TablesConsistent ==
    /\ KeySet(rate_history) = KeySet(current_rates)
    /\ KeySet(symbol_last_seen) = KeySet(rate_history)
    /\ KeySet(champion_records) = KeySet(volatility_data)
    /\ KeySet(champion_records) \subseteq KeySet(rate_history)

\* C39: in every state between two operations of the core (the lock is
\* free or held by the ranking loop or an accessor, or update_data is
\* between two items or has finished its cleanup) the series, current-rate
\* and last-seen tables have the same key set, the champion table and the
\* cached-score table have the same key set, and that key set is a subset
\* of the series key set.
C39_TablesConsistent == ~MidCleanup => TablesConsistent

\* The cleanup of update_data has made its last pop and has removed a
\* symbol from every table, while another symbol keeps its champion and its
\* cached score.
C39_Witness ==
    /\ CleanupOver
    /\ ingest.inactive_symbols # <<>>
    /\ ingest.inactive_symbols[1] \notin PerSymbolKeys
    /\ KeySet(champion_records) # {}
    /\ KeySet(volatility_data) = KeySet(champion_records)

\* ------------------------------------------------------------------ C40
\* get_status (lines 266-280): the fields are read as they are, one after
\* the other with no await in between, so at any moment the call can be
\* made.  connection_duration_hours and current_url repeat the clock and
\* the host.
get_status ==
    [is_connected |-> is_connected,
     is_running |-> is_running,
     current_host |-> BACKUP_HOSTS[current_host_index + 1],
     connection_count |-> reconnect_count,
     message_count |-> message_count]

\* The connection reported as up stays on one host: the host reported does
\* not change from one snapshot that reports connected to the next.
HostKeptWhileConnected ==
    get_status.is_connected /\ get_status'.is_connected
        => get_status'.current_host = get_status.current_host

\* C40: a status snapshot never reports connected = true with
\* running = false, and as long as it reports connected = true the host it
\* reports is the host the connection was made to.
C40_StatusConsistent ==
    /\ [](get_status.is_connected => get_status.is_running)
    /\ [][HostKeptWhileConnected]_vars

\* The second half alone: the host reported while connected is that of the
\* connection.
StatusHostOfConnection == [][HostKeptWhileConnected]_vars

\* stop() has cleared is_running and is suspended in websocket.close()
\* (line 93), while is_connected is still what the loop task set it to.
StatusWhileStopping ==
    /\ \E c \in Callers : callers[c].pc = "stop_closing"
    /\ get_status.is_connected
    /\ ~get_status.is_running
====
